---------------------------- MODULE Spec2Model ----------------------------
(***************************************************************************)
(* Model of the spotlight role-rotation engine and its role mutation queue *)
(* (src/cogs/Dugtri02-General/spotlight.py).                               *)
(*                                                                         *)
(* Time is counted in minutes.  One guild, one rotation config.  Every     *)
(* handler is one atomic action: the awaits inside a handler (an           *)
(* uncontended asyncio lock, the cache lock) do not suspend, so no other   *)
(* task runs in between.  The queue consumer is the exception: it awaits   *)
(* the platform call between taking an operation off the queue and         *)
(* handling the outcome, so it is two actions.                             *)
(***************************************************************************)
EXTENDS Integers, Sequences, FiniteSets

VARIABLES
    role_queue,      \* Spotlight.role_queue: deque of RoleOperation
    operation,       \* process_role_queue's local `operation`: <<>> or <<op>>
    consumer,        \* control state of process_role_queue: "running" | "exited"
    closed,          \* bot.is_closed()
    next_id,         \* number of RoleOperation objects created so far (object identity)
    applied,         \* history: ids of the operations the platform applied, in order
    attempt_log,     \* history: id of the operation of each platform call, in order
    audit,           \* the histories the behaviour keeps: a subset of Histories
    enqueue_faults,  \* whether queue_role_operation may raise (fault injection)
    member_initial,  \* members whose roles contain the config's initial role
    member_target,   \* members whose roles contain the config's target role
    member_blacklisted, \* members holding one of the config's blacklisted roles
    member_timed_out,   \* members with timed_out_until set
    member_bot,      \* members with member.bot
    status,          \* member.status: "online" | "offline"
    config,          \* the row of the spotlight table
    now,             \* the wall clock, in minutes
    last_pass,       \* history: what the latest rotation pass computed and enqueued
    table,           \* the rows of the spotlight table of the guilds that are not
                     \* modelled member by member: config id -> row
    tick_log,        \* history: the rows the latest tick processed, with the outcome
    loop,            \* the tasks.loop of rotate_spotlight: "running" | "stopped"
    last_rowid,      \* the AUTOINCREMENT counter of the spotlight table
    live_guilds,     \* the guild ids bot.get_guild finds
    live_roles,      \* the role ids guild.get_role finds
    channels,        \* per guild: its system channel and its other text channels
    store_log,       \* history: the latest operation on table: its answer, the
                     \* guild ids it passed to cache.delete and the
                     \* channel.send calls that returned
    links,           \* the rows of ban_sync_links: pairs <<guild_one_id, guild_two_id>>
    alert_channels,  \* the guilds with a ban_alert_channel in ban_sync_settings
    members,         \* per guild, what fetch_member finds for the actor and the user
    bans,            \* the bans of the platform: pairs <<guild, user>>
    processing_ban,  \* BanSync._processing_ban: the keys <<guild, user>> it holds
    ban_events,      \* the ban events not yet handled: pairs <<guild, who banned>>
    syncing,         \* the on_member_ban handlers asleep after a ban they applied
    ban_log,         \* history: the latest ban that on_member_ban applied
    alert_log,       \* history: the ban alerts sent: to which guild, about a ban in
                     \* which guild, by whom
    pending_requests,   \* BanSync.pending_requests: the keys <<lower id, higher id>>
    request_blacklist,  \* the rows of ban_sync_request_blacklist: <<guild_id, guild_ban_id>>
    requests,        \* the link requests sent so far: the add_link task that waits,
                     \* its GuildLinkRequestView and the button callbacks under way
    link_log,        \* history: why each row of ban_sync_links was inserted
    guild_locks,     \* Card.guild_locks: per guild an asyncio.Lock, once created
    card_commands,   \* the set, remove and sync commands of Card and where they are
    role_prefix_suffix, \* the rows of guild_role_prefix_suffix: <<guild, role>> -> row
    card_log,        \* history: the latest release of a guild lock
    update_queue,    \* UpdateQueue.queue: the ids of the members in it
    processing,      \* UpdateQueue.processing
    processors,      \* the process_queue tasks that have not ended, and where they are
    sticky_pending,  \* StickyMsg.pending_stickies of one channel: <<>> or <<task>>
    sticky_tasks,    \* the process_sticky_update tasks created for the channel
    sticky_handlers, \* the on_message handlers in their pause after task.cancel()
    sticky_posts     \* history: the stickies sent since the latest user message

queue_vars == <<role_queue, operation, consumer, closed, next_id, applied,
                attempt_log, audit>>
guild_vars == <<member_initial, member_target, member_blacklisted,
                member_timed_out, member_bot, status>>
vars == <<role_queue, operation, consumer, closed, next_id, applied,
          attempt_log, audit,
          enqueue_faults, member_initial, member_target, member_blacklisted,
          member_timed_out, member_bot, status, config, now, last_pass,
          table, tick_log, loop,
          last_rowid, live_guilds, live_roles, channels, store_log,
          links, alert_channels, members, bans, processing_ban, ban_events,
          syncing, ban_log, alert_log, pending_requests, request_blacklist, requests, link_log,
          guild_locks, card_commands, role_prefix_suffix, card_log,
          update_queue, processing, processors,
          sticky_pending, sticky_tasks, sticky_handlers, sticky_posts>>
platform_vars == <<live_guilds, live_roles, channels>>
ban_vars == <<links, alert_channels, members, bans, processing_ban, ban_events,
              syncing, ban_log, alert_log>>
\* the state of the cogs other than Spotlight
link_vars == <<pending_requests, request_blacklist, requests, link_log>>
card_vars == <<guild_locks, card_commands, role_prefix_suffix, card_log>>
update_vars == <<update_queue, processing, processors>>
sticky_vars == <<sticky_pending, sticky_tasks, sticky_handlers, sticky_posts>>
other_cogs == <<update_vars, sticky_vars>>
cog_vars == <<ban_vars, link_vars, card_vars, other_cogs>>
tick_vars == <<table, tick_log, loop, last_rowid, platform_vars, store_log, cog_vars>>

\* the other cogs as their construction leaves them, in guilds without links
NoBans ==
    /\ members = <<>>
    /\ bans = {}
    /\ processing_ban = {}
    /\ ban_events = {}
    /\ syncing = {}
    /\ ban_log = <<>>
    /\ alert_log = {}

NoRequests ==
    /\ pending_requests = {}
    /\ request_blacklist = {}
    /\ requests = <<>>
    /\ link_log = {}

NoCard ==
    /\ guild_locks = <<>>
    /\ card_commands = <<>>
    /\ role_prefix_suffix = <<>>
    /\ card_log = <<>>

NoUpdates ==
    /\ update_queue = <<>>
    /\ processing = FALSE
    /\ processors = <<>>

NoSticky ==
    /\ sticky_pending = <<>>
    /\ sticky_tasks = <<>>
    /\ sticky_handlers = 0
    /\ sticky_posts = 0

NoCogs ==
    /\ links = {}
    /\ alert_channels = {}
    /\ NoUpdates
    /\ NoSticky
    /\ NoBans
    /\ NoRequests
    /\ NoCard

-----------------------------------------------------------------------------
(* Bounds of the model *)

\* guild.members is 1..NumMembers, in that order
NumMembers == 3
\* RoleOperation objects created in one behaviour
MaxOps == 4

\* largest max_users of a config the model starts with
MaxUsersBound == 2

Members == 1 .. NumMembers

\* the clock readings the handlers can see, in minutes
TimePoints == {0, 1, 60, 150, 300, 301}

-----------------------------------------------------------------------------
(* Helpers on sets and sequences *)

Min(a, b) == IF a < b THEN a ELSE b
Max(a, b) == IF a > b THEN a ELSE b

Range(seq) == {seq[i] : i \in DOMAIN seq}

\* seq[:k]
Prefix(seq, k) == SubSeq(seq, 1, Min(Max(k, 0), Len(seq)))

\* the elements of S in ascending order (guild.members order for members)
Ascending(S) ==
    CHOOSE f \in [1 .. Cardinality(S) -> S] :
        \A i, j \in 1 .. Cardinality(S) : i < j => f[i] < f[j]

\* the first k elements of every shuffle of S (random.shuffle, then [:k];
\* random.sample(S, k))
Arrangements(S, k) ==
    {f \in [1 .. Min(Max(k, 0), Cardinality(S)) -> S] :
        \A i, j \in DOMAIN f : i # j => f[i] # f[j]}

\* every shuffle of S
Shuffles(S) == Arrangements(S, Cardinality(S))

-----------------------------------------------------------------------------
(* RoleOperation and the queue *)

\* a transient failure is retried while attempts < MaxAttempts
MaxAttempts == 3

\* RoleOperation.__init__
Histories == {"attempts", "applied", "passes", "ticks", "writes"}

\* a history variable changes only in behaviours that keep that history
Recorded(history, old, new) == IF history \in audit THEN new ELSE old

RoleOperation(id, member, add) ==
    [id |-> id, member |-> member, add |-> add, attempts |-> 0]

\* what the platform call of the consumer can do: return, raise
\* discord.HTTPException (a transient failure), raise discord.Forbidden (the
\* bot's highest role is not above the role), raise anything else
Outcomes == {"ok", "http", "forbidden", "other"}

\* the outcomes `except discord.HTTPException` catches: discord.Forbidden is
\* a subclass of discord.HTTPException and the loop has no clause of its own
\* for it
IsHTTPException(outcome) == outcome \in {"http", "forbidden"}

\* an enqueue that puts the operation at the front, as a retry does
QueueAtFront(queue, id, member, add) ==
    <<RoleOperation(id, member, add)>> \o queue

\* queue_role_operation: append under the lock
QueueRoleOperation(queue, id, member, add) ==
    Append(queue, RoleOperation(id, member, add))

\* member.add_roles(role) / member.remove_roles(role) on the target role
ApplyRole(holders, op) ==
    IF op.add THEN holders \cup {op.member} ELSE holders \ {op.member}

\* a retry bound that is off by one: a fourth attempt
RequeueOneMore(queue, op) ==
    LET failed == [op EXCEPT !.attempts = @ + 1]
    IN  IF failed.attempts <= MaxAttempts THEN <<failed>> \o queue ELSE queue

\* a retry that goes to the back of the deque (append, not appendleft)
RequeueAtBack(queue, op) ==
    LET failed == [op EXCEPT !.attempts = @ + 1]
    IN  IF failed.attempts < MaxAttempts THEN Append(queue, failed) ELSE queue

\* the HTTPException branch: count the attempt, put the operation back at the
\* front of the deque while attempts < 3, else drop it
RequeueFailed(queue, op) ==
    LET failed == [op EXCEPT !.attempts = @ + 1]
    IN  IF failed.attempts < MaxAttempts THEN <<failed>> \o queue ELSE queue

\* a loop with no `except Exception`: an unexpected error ends the task
LoopAfterUnhandled(outcome) == IF outcome = "other" THEN "exited" ELSE "running"

\* the loop after the handlers of an outcome: HTTPException and Exception
\* are caught inside the loop, which goes on
LoopAfter(outcome) == "running"

\* process_role_queue, first half of an iteration: the loop test, the popleft
\* under the lock, and the platform call being issued
TakeOperation ==
    /\ consumer = "running"
    /\ operation = <<>>
    /\ ~closed
    /\ role_queue # <<>>
    /\ operation' = <<Head(role_queue)>>
    /\ role_queue' = Tail(role_queue)
    /\ attempt_log' = Recorded("attempts", attempt_log,
                                Append(attempt_log, Head(role_queue).id))
    /\ UNCHANGED <<tick_vars, consumer, closed, next_id, applied, audit, enqueue_faults,
                   guild_vars, config, now, last_pass>>

\* process_role_queue, second half: the platform call returns or raises
CompleteOperation(outcome) ==
    /\ operation # <<>>
    /\ LET op == operation[1]
       IN  /\ member_target' =
                 IF outcome = "ok" THEN ApplyRole(member_target, op) ELSE member_target
           /\ applied' = IF outcome = "ok"
                         THEN Recorded("applied", applied, Append(applied, op.id))
                         ELSE applied
           /\ role_queue' =
                 IF IsHTTPException(outcome)
                 THEN RequeueFailed(role_queue, op)
                 ELSE role_queue
    /\ operation' = <<>>
    /\ consumer' = LoopAfter(outcome)
    /\ UNCHANGED <<tick_vars, closed, next_id, attempt_log, audit, enqueue_faults,
                   member_initial, member_blacklisted, member_timed_out,
                   member_bot, status, config, now, last_pass>>

\* process_role_queue: `while not self.bot.is_closed()` ends the loop
ConsumerExit ==
    /\ consumer = "running"
    /\ operation = <<>>
    /\ closed
    /\ consumer' = "exited"
    /\ UNCHANGED <<tick_vars, role_queue, operation, closed, next_id, applied, attempt_log, audit,
                   enqueue_faults, guild_vars, config, now, last_pass>>

\* the bot is closed (shutdown)
Close ==
    /\ ~closed
    /\ closed' = TRUE
    /\ UNCHANGED <<tick_vars, role_queue, operation, consumer, next_id, applied, attempt_log, audit,
                   enqueue_faults, guild_vars, config, now, last_pass>>

\* a producer calls queue_role_operation(member, role, add)
EnqueueCall(member, add) ==
    /\ next_id < MaxOps
    /\ next_id' = next_id + 1
    /\ role_queue' = QueueRoleOperation(role_queue, next_id + 1, member, add)
    /\ UNCHANGED <<tick_vars, operation, consumer, closed, applied, attempt_log, audit,
                   enqueue_faults, guild_vars, config, now, last_pass>>

-----------------------------------------------------------------------------
(* The rotation engine: due check and last_rotation bookkeeping.           *)
(* A stored last_rotation is <<>> (NULL) or <<t>>; isoformat() and         *)
(* fromisoformat() of an aware UTC datetime return the same instant.       *)

MinutesPerHour == 60
\* the rotation_interval value that means "1 minute (debug)"
DebugInterval == 5
DebugMinutes == 1

\* the rotation_interval values of the configs the model starts with
Intervals == {1, 2, DebugInterval}

\* timedelta(hours=interval)
Hours(interval) == interval * MinutesPerHour

\* the due check's interval: `if rotation_interval == 5` one minute, else hours
DueInterval(c) ==
    IF c.rotation_interval = DebugInterval
    THEN DebugMinutes
    ELSE Hours(c.rotation_interval)

\* the due check's next_rotation_dt
NextRotation(c) == c.last_rotation[1] + DueInterval(c)

\* a due check that wants the interval to be exceeded, not reached
IsDueStrict(c, t) ==
    IF c.last_rotation = <<>> THEN TRUE ELSE t > NextRotation(c)

\* the due check of the tick at clock reading t
IsDue(c, t) ==
    IF c.last_rotation = <<>> THEN TRUE ELSE t >= NextRotation(c)

\* while expected_rotation <= current_time: expected_rotation += interval
RECURSIVE ExpectedRotation(_, _, _)
ExpectedRotation(expected, t, step) ==
    IF expected <= t THEN ExpectedRotation(expected + step, t, step) ELSE expected

\* the rotation_time a successful pass stores
RotationTime(c, t) ==
    IF c.last_rotation = <<>>
    THEN t
    ELSE LET step == Hours(c.rotation_interval)
             snapped == ExpectedRotation(c.last_rotation[1], t, step) - step
         IN  IF snapped > t THEN t ELSE snapped

\* a pass that stores the rotation time whatever the enqueues did
AfterPassWhatever(c, t, errors) ==
    [c EXCEPT !.last_rotation = <<RotationTime(c, t)>>]

\* "Update last rotation only if no role operation errors"
AfterPass(c, t, errors) ==
    IF errors = {}
    THEN [c EXCEPT !.last_rotation = <<RotationTime(c, t)>>]
    ELSE c

-----------------------------------------------------------------------------
(* The rotation engine: eligibility and selection *)

IsOffline(m) == status[m] = "offline"

\* current_spotlight: members with the target and the initial role
CurrentSpotlight == member_target \cap member_initial

\* every holder of the initial role, blacklisted or not
AllWithInitial == member_initial

\* all_eligible: the initial role and none of the blacklisted roles
AllEligible == member_initial \ member_blacklisted

\* the eligible members the timeout filter lets through
NotTimedOut(c) ==
    {m \in AllEligible : ~(c.ignore_timed_out /\ m \in member_timed_out)}

ActiveMembers(c) ==
    IF c.prioritize_active
    THEN {m \in NotTimedOut(c) : ~IsOffline(m)}
    ELSE NotTimedOut(c)

OfflineMembers(c) ==
    IF c.prioritize_active
    THEN {m \in NotTimedOut(c) : IsOffline(m)}
    ELSE {}

\* a selection from one shuffled list of active and offline members alike
SelectionsUnpartitioned(c) ==
    Arrangements(ActiveMembers(c) \cup OfflineMembers(c), c.max_users)

\* selected_members: active_members[:max_users], then offline_members to
\* fill the remaining slots, each list shuffled
Selections(c) ==
    LET taken == Min(c.max_users, Cardinality(ActiveMembers(c)))
        remaining_slots == c.max_users - taken
    IN  {a \o o : a \in Arrangements(ActiveMembers(c), c.max_users),
                  o \in Arrangements(OfflineMembers(c), remaining_slots)}

\* a revoke for every current holder, selected again or not
StandardRevokesAll(selected) == Ascending(CurrentSpotlight)

\* standard rotation: current holders that are not selected, in guild order
StandardRevokes(selected) ==
    Ascending(CurrentSpotlight \ Range(selected))

\* a grant for every selected member, holder or not
StandardGrantsAll(selected) == selected

\* standard rotation: selected members without the target role
StandardGrants(selected) ==
    SelectSeq(selected, LAMBDA m : m \notin member_target)

StandardPlans(c) ==
    {[selected |-> sel,
      revokes |-> StandardRevokes(sel),
      grants |-> StandardGrants(sel)] : sel \in Selections(c)}

\* eligible_replacements of the always_replace_current strategy
EligibleReplacements(c) ==
    {m \in AllEligible :
        /\ m \notin CurrentSpotlight
        /\ (~c.ignore_timed_out \/ m \notin member_timed_out)}

\* the orders the shuffles can give eligible_replacements
ReplacementOrders(c) ==
    IF c.prioritize_active
    THEN {a \o o :
            a \in Shuffles({m \in EligibleReplacements(c) : ~IsOffline(m)}),
            o \in Shuffles({m \in EligibleReplacements(c) : IsOffline(m)})}
    ELSE Shuffles(EligibleReplacements(c))

\* a forced replacement that revokes every current holder, however few
\* replacements there are
ForcedPlansRevokeAll(c) ==
    IF CurrentSpotlight = {}
    THEN {[selected |-> Prefix(r, c.max_users),
           revokes |-> <<>>,
           grants |-> Prefix(r, c.max_users)] : r \in ReplacementOrders(c)}
    ELSE {[selected |-> <<>>,
           revokes |-> users_to_remove,
           grants |-> Prefix(r, c.max_users)] :
             users_to_remove \in Shuffles(CurrentSpotlight),
             r \in ReplacementOrders(c)}

\* always_replace_current: what is revoked and granted
ForcedPlans(c) ==
    IF CurrentSpotlight = {}
    THEN {[selected |-> Prefix(r, c.max_users),
           revokes |-> <<>>,
           grants |-> Prefix(r, c.max_users)] : r \in ReplacementOrders(c)}
    ELSE IF EligibleReplacements(c) = {}
    THEN {[selected |-> <<>>, revokes |-> <<>>, grants |-> <<>>]}
    ELSE LET num_to_replace == Min(Cardinality(CurrentSpotlight),
                                   Cardinality(EligibleReplacements(c)))
             after_replacement == Cardinality(CurrentSpotlight)
                                    - num_to_replace + num_to_replace
             remaining_slots == Max(0, c.max_users - after_replacement)
         IN  {[selected |-> <<>>,
               revokes |-> users_to_remove,
               grants |-> Prefix(r, num_to_replace) \o
                          Prefix(SubSeq(r, num_to_replace + 1, Len(r)),
                                 remaining_slots)] :
                 users_to_remove \in Arrangements(CurrentSpotlight, num_to_replace),
                 r \in ReplacementOrders(c)}

\* what a scheduled pass can decide for config c
Plans(c) ==
    IF c.always_replace_current THEN ForcedPlans(c) ELSE StandardPlans(c)

\* the calls of a plan with the grants made first
PassOpsGrantsFirst(plan) ==
    [i \in 1 .. Len(plan.grants) |-> [member |-> plan.grants[i], add |-> TRUE]]
    \o [i \in 1 .. Len(plan.revokes) |-> [member |-> plan.revokes[i], add |-> FALSE]]

\* the queue_role_operation calls of a plan, in the order they are made
PassOps(plan) ==
    [i \in 1 .. Len(plan.revokes) |-> [member |-> plan.revokes[i], add |-> FALSE]]
    \o [i \in 1 .. Len(plan.grants) |-> [member |-> plan.grants[i], add |-> TRUE]]

\* the calls (by position) that can raise
FailingCalls(ops) ==
    IF enqueue_faults THEN SUBSET (1 .. Len(ops)) ELSE {{}}

\* the calls that did not raise
Kept(ops, failed) ==
    LET idx == Ascending((1 .. Len(ops)) \ failed)
    IN  [i \in 1 .. Len(idx) |-> ops[idx[i]]]

RECURSIVE EnqueueAll(_, _, _)
EnqueueAll(queue, id, ops) ==
    IF ops = <<>>
    THEN queue
    ELSE EnqueueAll(QueueRoleOperation(queue, id + 1, Head(ops).member, Head(ops).add),
                    id + 1, Tail(ops))


-----------------------------------------------------------------------------
(* The scheduled tick *)

\* what store_log keeps of an operation on table
Operation(op, guild, answer, invalidated, notices) ==
    [op |-> op, guild |-> guild, answer |-> answer,
     invalidated |-> invalidated, notices |-> notices]

NoOperation == Operation("none", 0, "none", {}, <<>>)

\* no rows besides config, and the loop as cog construction starts it
NoRows ==
    /\ table = <<>>
    /\ tick_log = <<>>
    /\ loop = "running"
    /\ last_rowid = 0
    /\ live_guilds = {}
    /\ live_roles = {}
    /\ channels = <<>>
    /\ store_log = NoOperation

NoTable == NoRows /\ NoCogs

NoPass ==
    [kind |-> "none", skipped |-> FALSE, selected |-> <<>>, current |-> {},
     held |-> {}, ops |-> <<>>, errors |-> {}, first_id |-> 0,
     queue_len |-> 0, in_flight |-> FALSE, before |-> <<>>, at |-> 0]

\* rotate_spotlight for the one stored config: the due check, and for a due
\* config the selection, the enqueues and the last_rotation update
RotateSpotlight ==
    /\ IsDue(config, now)
    /\ IF AllEligible = {}
       THEN /\ last_pass' = Recorded("passes", last_pass,
                    [NoPass EXCEPT !.kind = "tick", !.skipped = TRUE,
                                   !.current = CurrentSpotlight,
                                   !.held = member_target, !.first_id = next_id,
                                   !.queue_len = Len(role_queue),
                                   !.in_flight = (operation # <<>>),
                                   !.before = config.last_rotation, !.at = now])
            /\ UNCHANGED <<role_queue, next_id, config>>
       ELSE \E plan \in Plans(config) :
            \E failed \in FailingCalls(PassOps(plan)) :
                LET ops == PassOps(plan)
                    kept == Kept(ops, failed)
                    errors == {ops[i] : i \in failed}
                IN  /\ next_id + Len(kept) <= MaxOps
                    /\ role_queue' = EnqueueAll(role_queue, next_id, kept)
                    /\ next_id' = next_id + Len(kept)
                    /\ config' = AfterPass(config, now, errors)
                    /\ last_pass' = Recorded("passes", last_pass,
                         [kind |-> "tick", skipped |-> FALSE,
                          selected |-> plan.selected,
                          current |-> CurrentSpotlight, held |-> member_target,
                          ops |-> kept, errors |-> errors, first_id |-> next_id,
                          queue_len |-> Len(role_queue),
                          in_flight |-> (operation # <<>>),
                          before |-> config.last_rotation, at |-> now])
    /\ UNCHANGED <<tick_vars, operation, consumer, closed, applied, attempt_log, audit,
                   enqueue_faults, guild_vars, now>>

\* the wall clock moves on
Advance ==
    /\ \E t \in TimePoints : t > now /\ now' = t
    /\ UNCHANGED <<tick_vars, queue_vars, enqueue_faults, guild_vars, config, last_pass>>

-----------------------------------------------------------------------------
(* The tick over the rows of the table: the due check, the sort, and the    *)
(* per-config try/except around the body.  The guilds of these rows are not *)
(* modelled; the body of a row is represented by how it ends.               *)

\* rows of the table
NumConfigs == 2
ConfigIds == 1 .. NumConfigs

\* the guilds of the rows, and the roles each guild has had; a role id
\* belongs to one guild
Guilds == {1, 2}
Roles == {11, 12, 13, 14, 21, 22}
RoleGuild(role) == role \div 10
RolesOf(guild) == {role \in Roles : RoleGuild(role) = guild}

\* the roles whose position is not below guild.me.top_role.position
AboveBot == {14}

\* a guild's channels: whether it has a system channel and whether the bot
\* may send there, and whether some text channel lets the bot send; a
\* system channel is one of the text channels
ChannelStates ==
    {ch \in [system : {"none", "writable", "unwritable"}, text : BOOLEAN] :
        ch.system = "writable" => ch.text}

\* guild.system_channel or the first text channel with send_messages
NoticeChannel(guild) ==
    IF channels[guild].system # "none" THEN "system"
    ELSE IF channels[guild].text THEN "text"
    ELSE "none"

\* channel.send returns on the chosen channel; on a channel where the bot
\* may not send it raises, which the handler logs
SendReturns(guild) ==
    \/ NoticeChannel(guild) = "text"
    \/ NoticeChannel(guild) = "system" /\ channels[guild].system = "writable"

\* the blacklist slots of a row
Slots == 1 .. 4

\* remove_when_offline, prioritize_active, ignore_timed_out and
\* always_replace_current as the set command defaults them
NoFlags == <<FALSE, FALSE, FALSE, FALSE>>

\* the columns a set command writes
Settings(max_users, rotation_interval, flags) ==
    [max_users |-> max_users,
     rotation_interval |-> rotation_interval,
     remove_when_offline |-> flags[1],
     prioritize_active |-> flags[2],
     ignore_timed_out |-> flags[3],
     always_replace_current |-> flags[4]]

\* the row INSERT INTO spotlight stores: last_rotation and the blacklist
\* slots NULL
NewRow(guild, initial_role, target_role, settings) ==
    [guild_id |-> guild,
     initial_role_id |-> initial_role,
     target_role_id |-> target_role,
     max_users |-> settings.max_users,
     rotation_interval |-> settings.rotation_interval,
     last_rotation |-> <<>>,
     remove_when_offline |-> settings.remove_when_offline,
     prioritize_active |-> settings.prioritize_active,
     ignore_timed_out |-> settings.ignore_timed_out,
     always_replace_current |-> settings.always_replace_current,
     blacklisted |-> [slot \in Slots |-> <<>>]]

\* bot.get_guild, guild.get_role(initial_role_id) or
\* guild.get_role(target_role_id) finds nothing
IsStale(row) ==
    \/ row.guild_id \notin live_guilds
    \/ row.initial_role_id \notin live_roles
    \/ row.target_role_id \notin live_roles

\* how the body of one due config ends: it stores the rotation time; it
\* leaves without storing (no eligible member, or an enqueue that failed);
\* or something in it raises
BodyOutcomes == {"done", "no_update", "raised"}

\* the due check over all rows at clock reading t
DueRows(t) == {id \in DOMAIN table : IsDue(table[id], t)}

\* the sort key (last_rotation is not None, last_rotation): never rotated
\* first, then the oldest rotation; the sort is stable
SortsBefore(a, b) ==
    LET la == table[a].last_rotation
        lb == table[b].last_rotation
    IN  IF la = <<>> /\ lb = <<>> THEN a < b
        ELSE IF la = <<>> THEN TRUE
        ELSE IF lb = <<>> THEN FALSE
        ELSE la[1] < lb[1] \/ (la[1] = lb[1] /\ a < b)

\* due_configs after the sort
DueConfigs(t) ==
    [i \in 1 .. Cardinality(DueRows(t)) |->
        CHOOSE id \in DueRows(t) :
            Cardinality({other \in DueRows(t) : SortsBefore(other, id)}) = i - 1]

\* an error of the body that is not caught inside the loop over the configs
EscapesNothingCaught(outcome) == outcome = "raised"

\* `except Exception` around the body of each config catches whatever the
\* body raises
Escapes(outcome) == FALSE

\* how many configs of due the loop gets to: all of them, or those up to
\* the first whose error escapes
Reached(due, outcomes) ==
    LET escaping == {i \in DOMAIN due : Escapes(outcomes[i])}
    IN  IF escaping = {} THEN Len(due)
        ELSE CHOOSE i \in escaping : \A j \in escaping : i <= j

\* how the pass over due ends for each config: a config with a stale
\* reference is deleted before its body starts
TickOutcomes(due) ==
    {outcomes \in [DOMAIN due -> BodyOutcomes \cup {"removed"}] :
        \A i \in DOMAIN due : outcomes[i] = "removed" <=> IsStale(table[due[i]])}

\* rotate_spotlight over the rows of the table
TickTable ==
    /\ loop = "running"
    /\ DueRows(now) # {}
    /\ \E due \in {DueConfigs(now)} :
           \E outcomes \in TickOutcomes(due) :
           \E reached \in {Reached(due, outcomes)} :
               LET done == {due[i] : i \in {j \in 1 .. reached : outcomes[j] = "done"}}
                   removed == {due[i] : i \in {j \in 1 .. reached : outcomes[j] = "removed"}}
               IN  /\ table' = [id \in DOMAIN table \ removed |->
                                  IF id \in done
                                  THEN AfterPass(table[id], now, {})
                                  ELSE table[id]]
                   /\ tick_log' = Recorded("ticks", tick_log,
                         [i \in 1 .. reached |->
                             [id |-> due[i], outcome |-> outcomes[i]]])
                   /\ loop' = IF \E i \in 1 .. reached : Escapes(outcomes[i])
                              THEN "stopped" ELSE "running"
                   /\ store_log' = Recorded("writes", store_log,
                         Operation("tick", 0, "done",
                                   {table[id].guild_id : id \in done}, <<>>))
    /\ UNCHANGED <<queue_vars, enqueue_faults, guild_vars, config, now, last_pass,
                   last_rowid, platform_vars, cog_vars>>

-----------------------------------------------------------------------------
(* The commands and the listener that write the rows of the table.  The    *)
(* members of these guilds are not modelled, so the role operations a       *)
(* command enqueues for them are not either.                                *)

\* what the commands accept for max_users
MinUsers == 1
MaxUsers == 8

\* get_guild_max_configs: the default, and what guild 1 was raised to with
\* the least amount set_max_configs accepts
DefaultMaxConfigs == 1
LeastRaisedMaxConfigs == 2
GuildMaxConfigs(guild) ==
    IF guild = 1 THEN LeastRaisedMaxConfigs ELSE DefaultMaxConfigs

\* the ids AUTOINCREMENT hands out
RowIds == 1 .. (NumConfigs + 1)

\* the variables no operation on the table changes
store_frame == <<queue_vars, enqueue_faults, guild_vars, config, now, last_pass,
                 tick_log, loop, cog_vars>>

\* the rows of a guild
GuildRows(guild) == {id \in DOMAIN table : table[id].guild_id = guild}

\* the rows of a guild with a target role, and the one fetchone() returns
RowsWithTarget(guild, target_role) ==
    {id \in GuildRows(guild) : table[id].target_role_id = target_role}

FirstRow(ids) == CHOOSE id \in ids : \A other \in ids : id <= other

\* the rows of a guild with an initial and a target role
RowsWithRoles(guild, initial_role, target_role) ==
    {id \in RowsWithTarget(guild, target_role) :
        table[id].initial_role_id = initial_role}

\* a set command that takes any max_users
MaxUsersUnchecked(max_users) == FALSE

\* `if max_users < 1` and `if max_users > 8`
MaxUsersRejected(max_users) == max_users < MinUsers \/ max_users > MaxUsers

\* a target check that lets a used target role through
TargetUsedNever(guild, initial_role, target_role) == FALSE

\* the set command's check that the target role is not targeted from
\* another initial role; the command always comes with options
TargetUsed(guild, initial_role, target_role) ==
    LET existing == RowsWithTarget(guild, target_role)
    IN  IF existing = {} THEN FALSE
        ELSE table[FirstRow(existing)].initial_role_id # initial_role

\* how set_spotlight answers
SetAnswer(guild, initial_role, target_role, settings) ==
    IF MaxUsersRejected(settings.max_users) THEN "max_users"
    ELSE IF initial_role \in AboveBot \/ target_role \in AboveBot THEN "above_bot"
    ELSE IF initial_role = target_role THEN "same_role"
    ELSE IF TargetUsed(guild, initial_role, target_role) THEN "target_used"
    ELSE IF RowsWithRoles(guild, initial_role, target_role) # {} THEN "updated"
    ELSE IF Cardinality(GuildRows(guild)) >= GuildMaxConfigs(guild) THEN "limit"
    ELSE "configured"

\* an update that also clears last_rotation
WithSettingsReset(row, settings) ==
    [row EXCEPT !.max_users = settings.max_users,
                !.rotation_interval = settings.rotation_interval,
                !.remove_when_offline = settings.remove_when_offline,
                !.prioritize_active = settings.prioritize_active,
                !.ignore_timed_out = settings.ignore_timed_out,
                !.always_replace_current = settings.always_replace_current,
                !.last_rotation = <<>>]

\* UPDATE spotlight SET max_users, rotation_interval_hours and the four flags
WithSettings(row, settings) ==
    [row EXCEPT !.max_users = settings.max_users,
                !.rotation_interval = settings.rotation_interval,
                !.remove_when_offline = settings.remove_when_offline,
                !.prioritize_active = settings.prioritize_active,
                !.ignore_timed_out = settings.ignore_timed_out,
                !.always_replace_current = settings.always_replace_current]

\* the answers of a command that wrote
Written == {"updated", "configured", "removed", "done"}

\* the set command in a guild, with roles of the guild
SetSpotlight(guild, initial_role, target_role, settings) ==
    /\ guild \in live_guilds
    /\ {initial_role, target_role} \subseteq live_roles \cap RolesOf(guild)
    /\ \E answer \in {SetAnswer(guild, initial_role, target_role, settings)} :
           /\ answer = "configured" => last_rowid + 1 \in RowIds
           /\ table' =
                IF answer = "updated"
                THEN [id \in DOMAIN table |->
                        IF id \in RowsWithRoles(guild, initial_role, target_role)
                        THEN WithSettings(table[id], settings)
                        ELSE table[id]]
                ELSE IF answer = "configured"
                THEN [id \in DOMAIN table \cup {last_rowid + 1} |->
                        IF id = last_rowid + 1
                        THEN NewRow(guild, initial_role, target_role, settings)
                        ELSE table[id]]
                ELSE table
           /\ last_rowid' = IF answer = "configured" THEN last_rowid + 1 ELSE last_rowid
           /\ store_log' = Recorded("writes", store_log,
                 Operation("set", guild, answer,
                           IF answer \in Written THEN {guild} ELSE {}, <<>>))
    /\ UNCHANGED <<store_frame, platform_vars>>

\* the four flags of a row
FlagsOf(row) ==
    <<row.remove_when_offline, row.prioritize_active, row.ignore_timed_out,
      row.always_replace_current>>

\* an optional parameter of the edit command: <<>> when not given
Given(parameter, old) == IF parameter = <<>> THEN old ELSE parameter[1]

\* the edit command's check of a changed target role against the other rows
EditTargetUsed(guild, id, target_role) ==
    /\ target_role # table[id].target_role_id
    /\ RowsWithTarget(guild, target_role) \ {id} # {}

\* how edit_spotlight answers; a role of the row that guild.get_role no
\* longer finds makes the `.position` check raise
EditAnswer(guild, id, initial_role, target_role, max_users) ==
    IF id \notin GuildRows(guild) THEN "not_found"
    ELSE LET old == table[id]
             initial == Given(initial_role, old.initial_role_id)
             target == Given(target_role, old.target_role_id)
         IN  IF MaxUsersRejected(Given(max_users, old.max_users)) THEN "max_users"
             ELSE IF initial \notin live_roles THEN "error"
             ELSE IF initial \in AboveBot THEN "above_bot"
             ELSE IF target \notin live_roles THEN "error"
             ELSE IF target \in AboveBot THEN "above_bot"
             ELSE IF initial = target THEN "same_role"
             ELSE IF EditTargetUsed(guild, id, target) THEN "target_used"
             ELSE "updated"

\* the edit command; flags is <<>> or the four flags.  When the target role
\* changed the command ends with a call of force_rotate, which stores the
\* current time as last_rotation or leaves the row as it is
EditSpotlight(guild, id, initial_role, target_role, max_users, rotation_interval, flags) ==
    /\ guild \in live_guilds
    /\ Range(initial_role) \cup Range(target_role) \subseteq live_roles \cap RolesOf(guild)
    /\ \E answer \in {EditAnswer(guild, id, initial_role, target_role, max_users)} :
           IF answer = "updated"
           THEN \E forced \in BOOLEAN :
                    LET old == table[id]
                        target == Given(target_role, old.target_role_id)
                        edited ==
                            [old EXCEPT
                               !.initial_role_id = Given(initial_role, old.initial_role_id),
                               !.target_role_id = target,
                               !.max_users = Given(max_users, old.max_users),
                               !.rotation_interval = Given(rotation_interval, old.rotation_interval),
                               !.remove_when_offline = Given(flags, FlagsOf(old))[1],
                               !.prioritize_active = Given(flags, FlagsOf(old))[2],
                               !.ignore_timed_out = Given(flags, FlagsOf(old))[3],
                               !.always_replace_current = Given(flags, FlagsOf(old))[4]]
                    IN  /\ forced => target # old.target_role_id
                        /\ table' = [table EXCEPT ![id] =
                              IF forced THEN [edited EXCEPT !.last_rotation = <<now>>]
                              ELSE edited]
                        /\ store_log' = Recorded("writes", store_log,
                              Operation("edit", guild, answer, {guild}, <<>>))
           ELSE /\ table' = table
                /\ store_log' = Recorded("writes", store_log,
                      Operation("edit", guild, answer, {}, <<>>))
    /\ UNCHANGED <<store_frame, platform_vars, last_rowid>>

\* the remove command
RemoveSpotlight(guild, id) ==
    /\ guild \in live_guilds
    /\ IF id \in GuildRows(guild)
       THEN /\ table' = [other \in DOMAIN table \ {id} |-> table[other]]
            /\ store_log' = Recorded("writes", store_log,
                  Operation("remove", guild, "removed", {guild}, <<>>))
       ELSE /\ table' = table
            /\ store_log' = Recorded("writes", store_log,
                  Operation("remove", guild, "not_found", {}, <<>>))
    /\ UNCHANGED <<store_frame, platform_vars, last_rowid>>

\* a listener that deletes every row of the guild
AffectedConfigsAll(role) == GuildRows(RoleGuild(role))

\* affected_configs of on_guild_role_delete
AffectedConfigs(role) ==
    {id \in GuildRows(RoleGuild(role)) :
        table[id].initial_role_id = role \/ table[id].target_role_id = role}

\* the notifications on_guild_role_delete sends for the configs it deleted:
\* one for each config, where channel.send returns
RoleDeleteNotices(guild, affected) ==
    IF SendReturns(guild)
    THEN [i \in 1 .. Cardinality(affected) |->
            [guild |-> guild, channel |-> NoticeChannel(guild)]]
    ELSE <<>>

\* a role of a guild is deleted and on_guild_role_delete runs
RoleDelete(role) ==
    /\ role \in live_roles
    /\ RoleGuild(role) \in live_guilds
    /\ live_roles' = live_roles \ {role}
    /\ \E affected \in {AffectedConfigs(role)} :
           /\ table' = [id \in DOMAIN table \ affected |-> table[id]]
           /\ store_log' = Recorded("writes", store_log,
                 Operation("role_delete", RoleGuild(role), "done",
                           IF affected = {} THEN {} ELSE {RoleGuild(role)},
                           RoleDeleteNotices(RoleGuild(role), affected)))
    /\ UNCHANGED <<store_frame, live_guilds, channels, last_rowid>>

\* a role is deleted while the bot is not connected: no listener runs, and
\* guild.get_role finds nothing from then on
LoseRole(role) ==
    /\ role \in live_roles
    /\ live_roles' = live_roles \ {role}
    /\ UNCHANGED <<store_frame, live_guilds, channels, last_rowid, table, store_log>>

\* the bot is removed from a guild: bot.get_guild finds nothing from then on
LeaveGuild(guild) ==
    /\ guild \in live_guilds
    /\ live_guilds' = live_guilds \ {guild}
    /\ UNCHANGED <<store_frame, live_roles, channels, last_rowid, table, store_log>>

\* the blacklist command: option 0 clears the four slots, 1 adds the role to
\* the slot, 2 removes it from the slot; role and slot are <<>> when not given
BlacklistAnswer(guild, id, option, role, slot) ==
    IF id \notin GuildRows(guild) THEN "not_found"
    ELSE IF option = 0 THEN "cleared"
    ELSE IF role = <<>> THEN "no_role"
    ELSE IF slot = <<>> THEN "no_slot"
    ELSE IF option = 2
         THEN IF table[id].blacklisted[slot[1]] = role THEN "unlisted"
              ELSE "not_in_slot"
    ELSE IF \E other \in Slots : table[id].blacklisted[other] = role THEN "already"
    ELSE "listed"

BlacklistRole(guild, id, option, role, slot) ==
    /\ guild \in live_guilds
    /\ Range(role) \subseteq live_roles \cap RolesOf(guild)
    /\ Range(slot) \subseteq Slots
    /\ \E answer \in {BlacklistAnswer(guild, id, option, role, slot)} :
           /\ table' =
                IF answer = "cleared"
                THEN [table EXCEPT ![id].blacklisted = [other \in Slots |-> <<0>>]]
                ELSE IF answer = "unlisted"
                THEN [table EXCEPT ![id].blacklisted[slot[1]] = <<0>>]
                ELSE IF answer = "listed"
                THEN [table EXCEPT ![id].blacklisted[slot[1]] = role]
                ELSE table
           /\ store_log' = Recorded("writes", store_log,
                 Operation("blacklist", guild, answer,
                           IF answer \in {"cleared", "unlisted", "listed"}
                           THEN {guild} ELSE {}, <<>>))
    /\ UNCHANGED <<store_frame, platform_vars, last_rowid>>

\* the time command: the given moment becomes the last_rotation of the
\* config, or of every config of the guild when no config is given
SetSpotlightTime(guild, id, next_rotation) ==
    /\ guild \in live_guilds
    /\ IF id # <<>> /\ Range(id) \cap GuildRows(guild) = {}
       THEN /\ table' = table
            /\ store_log' = Recorded("writes", store_log,
                  Operation("time", guild, "not_found", {}, <<>>))
       ELSE /\ table' = [row \in DOMAIN table |->
                           IF row \in GuildRows(guild) /\ (id = <<>> \/ row = id[1])
                           THEN [table[row] EXCEPT !.last_rotation = <<next_rotation>>]
                           ELSE table[row]]
            /\ store_log' = Recorded("writes", store_log,
                  Operation("time", guild, "done", {guild}, <<>>))
    /\ UNCHANGED <<store_frame, platform_vars, last_rowid>>

\* the configs the force command goes through: the one given, or all of
\* the guild
ForcedConfigs(guild, id) ==
    IF id = <<>> THEN GuildRows(guild) ELSE Range(id) \cap GuildRows(guild)

\* a force command that skips no config
ForceOutcomesUnskipped(configs) == [configs -> BodyOutcomes]

\* how the force command ends for each config: one whose role is missing
\* is skipped
ForceOutcomes(configs) ==
    {outcomes \in [configs -> BodyOutcomes \cup {"skipped"}] :
        \A id \in configs :
            outcomes[id] = "skipped" <=>
                {table[id].initial_role_id, table[id].target_role_id} \ live_roles # {}}

\* the force command over the rows of the table
ForceTable(guild, id) ==
    /\ guild \in live_guilds
    /\ IF ForcedConfigs(guild, id) = {}
       THEN /\ table' = table
            /\ store_log' = Recorded("writes", store_log,
                  Operation("force", guild, "not_found", {}, <<>>))
       ELSE \E outcomes \in ForceOutcomes(ForcedConfigs(guild, id)) :
            /\ table' = [row \in DOMAIN table |->
                           IF row \in DOMAIN outcomes /\ outcomes[row] = "done"
                           THEN [table[row] EXCEPT !.last_rotation = <<now>>]
                           ELSE table[row]]
            /\ store_log' = Recorded("writes", store_log,
                  Operation("force", guild, "done", {guild}, <<>>))
    /\ UNCHANGED <<store_frame, platform_vars, last_rowid>>

-----------------------------------------------------------------------------
(* The force command *)

\* force_rotate: selected_members, active members first, whatever the
\* config's prioritize_active, blacklist and timeout settings
ForceSelections(c) ==
    LET active == {m \in member_initial : ~IsOffline(m)}
        offline == {m \in member_initial : IsOffline(m)}
        remaining_slots == c.max_users - Min(c.max_users, Cardinality(active))
    IN  {a \o o : a \in Arrangements(active, c.max_users),
                  o \in Arrangements(offline, remaining_slots)}

ForcePlans(c) ==
    {[selected |-> sel,
      revokes |-> Ascending(CurrentSpotlight \ Range(sel)),
      grants |-> SelectSeq(sel, LAMBDA m : m \notin CurrentSpotlight)] :
        sel \in ForceSelections(c)}

\* the number of queue_role_operation calls that return before one raises
\* and ends the config's try block; Len(ops) when none raises
CallsBeforeFault(ops) ==
    IF enqueue_faults THEN 0 .. Len(ops) ELSE {Len(ops)}

\* force_rotate for the one stored config
ForceRotate ==
    /\ member_initial # {}
    /\ \E plan \in ForcePlans(config) :
       \E done \in CallsBeforeFault(PassOps(plan)) :
           LET ops == PassOps(plan)
               kept == Prefix(ops, done)
           IN  /\ next_id + Len(kept) <= MaxOps
               /\ role_queue' = EnqueueAll(role_queue, next_id, kept)
               /\ next_id' = next_id + Len(kept)
               /\ config' = IF done = Len(ops)
                            THEN [config EXCEPT !.last_rotation = <<now>>]
                            ELSE config
               /\ last_pass' = Recorded("passes", last_pass,
                    [kind |-> "force", skipped |-> FALSE,
                     selected |-> plan.selected,
                     current |-> CurrentSpotlight, held |-> member_target,
                     ops |-> kept,
                     errors |-> IF done = Len(ops) THEN {} ELSE {ops[done + 1]},
                     first_id |-> next_id, queue_len |-> Len(role_queue),
                     in_flight |-> (operation # <<>>),
                     before |-> config.last_rotation, at |-> now])
    /\ UNCHANGED <<tick_vars, operation, consumer, closed, applied, attempt_log, audit,
                   enqueue_faults, guild_vars, now>>

-----------------------------------------------------------------------------
(* Presence eviction *)

\* potential members that may already hold the target role
PotentialMembersHolders(after) ==
    {m \in Members :
        /\ m # after
        /\ m \in member_initial
        /\ m \notin member_bot
        /\ m \notin member_blacklisted}

\* potential_members of on_presence_update for the member that went offline
PotentialMembers(after) ==
    {m \in Members :
        /\ m # after
        /\ m \in member_initial
        /\ m \notin member_target
        /\ m \notin member_bot
        /\ m \notin member_blacklisted}

\* eligible_members, with the statuses st the guild has at the event
EligibleMembers(c, after, st) ==
    LET allowed == {m \in PotentialMembers(after) :
                       ~c.ignore_timed_out \/ m \notin member_timed_out}
        active_members == {m \in allowed : st[m] # "offline"}
        offline_members == {m \in allowed : st[m] = "offline"}
    IN  IF c.prioritize_active
        THEN IF active_members # {} THEN active_members ELSE offline_members
        ELSE allowed

\* the member's presence changes to new_status; on_presence_update runs
PresenceUpdate(after, new_status) ==
    /\ status[after] # new_status
    /\ status' = [status EXCEPT ![after] = new_status]
    /\ IF /\ new_status = "offline"
          /\ config.remove_when_offline
          /\ after \in member_target
          /\ EligibleMembers(config, after, status') # {}
       THEN \E replacement \in EligibleMembers(config, after, status') :
                LET ops == <<[member |-> after, add |-> FALSE],
                             [member |-> replacement, add |-> TRUE]>>
                IN  /\ next_id + 2 <= MaxOps
                    /\ role_queue' = EnqueueAll(role_queue, next_id, ops)
                    /\ next_id' = next_id + 2
                    /\ last_pass' = Recorded("passes", last_pass,
                         [kind |-> "presence", skipped |-> FALSE,
                          selected |-> <<replacement>>,
                          current |-> CurrentSpotlight, held |-> member_target,
                          ops |-> ops, errors |-> {}, first_id |-> next_id,
                          queue_len |-> Len(role_queue),
                          in_flight |-> (operation # <<>>),
                          before |-> config.last_rotation, at |-> now])
       ELSE UNCHANGED <<role_queue, next_id, last_pass>>
    /\ UNCHANGED <<tick_vars, operation, consumer, closed, applied, attempt_log, audit,
                   enqueue_faults, member_initial, member_target,
                   member_blacklisted, member_timed_out, member_bot, config, now>>

-----------------------------------------------------------------------------
(* Initial states *)

Configs ==
    [max_users : 1 .. MaxUsersBound,
     rotation_interval : Intervals,
     last_rotation : {<<>>},
     remove_when_offline : BOOLEAN,
     prioritize_active : BOOLEAN,
     ignore_timed_out : BOOLEAN,
     always_replace_current : BOOLEAN]

AllOnline == [m \in Members |-> "online"]

\* the guilds a pass can meet: who holds the initial, the target, a
\* blacklisted role, who is timed out and who is offline
GuildStates ==
    /\ member_initial \in {Members, Members \ {1}}
    /\ member_target \in SUBSET Members
    /\ \E marked \in BOOLEAN :
          /\ member_blacklisted = IF marked THEN {2} ELSE {}
          /\ member_timed_out = IF marked THEN {3} ELSE {}
    /\ member_bot = {}
    /\ \E off \in {{}, {1}, Members \ {1}} :
          status = [m \in Members |-> IF m \in off THEN "offline" ELSE "online"]

\* an operation an earlier producer left behind: none, one the consumer has
\* taken and not finished, or one still queued
EarlierOperation ==
    \E pending \in {"none", "in_flight", "queued"} :
        /\ operation = IF pending = "in_flight"
                       THEN <<RoleOperation(1, 1, TRUE)>> ELSE <<>>
        /\ role_queue = IF pending = "queued"
                        THEN <<RoleOperation(1, 1, TRUE)>> ELSE <<>>
        /\ next_id = IF pending = "none" THEN 0 ELSE 1

\* a standard-mode config becomes due for the first time in a guild in any
\* role state, while the consumer may still hold an earlier operation
InitPass ==
    /\ consumer = "running"
    /\ closed = FALSE
    /\ applied = <<>>
    /\ attempt_log = <<>>
    /\ audit = {"applied", "passes"}
    /\ last_pass = NoPass
    /\ NoTable
    /\ EarlierOperation
    /\ enqueue_faults = FALSE
    /\ GuildStates
    /\ config \in {c \in Configs : /\ c.rotation_interval = 1
                                   /\ ~c.remove_when_offline
                                   /\ ~c.always_replace_current}
    /\ now = 0

NextPass ==
    \/ RotateSpotlight
    \/ TakeOperation
    \/ \E outcome \in Outcomes : CompleteOperation(outcome)

SpecPass == InitPass /\ [][NextPass]_vars


-----------------------------------------------------------------------------
(* Claims about one scheduled pass in standard mode *)

\* the operations the step put at the back of the queue
NewlyQueued == SubSeq(role_queue', Len(role_queue) + 1, Len(role_queue'))

\* the step is a scheduled pass that reached the selection
IsScheduledPass == RotateSpotlight /\ ~last_pass'.skipped

MembersOf(ops, add) == {ops[i].member : i \in {j \in DOMAIN ops : ops[j].add = add}}

AppliedIds == Range(applied)

\* the ids of the operations the latest pass enqueued
PassIds == (last_pass.first_id + 1) .. (last_pass.first_id + Len(last_pass.ops))

\* C3: a standard-mode scheduled pass enqueues one revoke for each member
\* that holds both roles and is not selected, one grant for each selected
\* member without the target role, and nothing else; in particular nothing
\* for a member that is selected again while holding the target role.
C3_StandardReconciliation ==
    [][(IsScheduledPass /\ ~config.always_replace_current) =>
        LET selected == Range(last_pass'.selected)
        IN  /\ MembersOf(NewlyQueued, FALSE) = CurrentSpotlight \ selected
            /\ MembersOf(NewlyQueued, TRUE) = selected \ member_target
            /\ Len(NewlyQueued) = Cardinality(CurrentSpotlight \ selected)
                                   + Cardinality(selected \ member_target)
            /\ \A m \in selected \cap member_target :
                   \A i \in DOMAIN NewlyQueued : NewlyQueued[i].member # m]_vars

\* a pass that revoked, granted and kept a re-selected holder untouched
C3_Witness ==
    /\ last_pass.kind = "tick"
    /\ ~config.always_replace_current
    /\ MembersOf(last_pass.ops, FALSE) # {}
    /\ MembersOf(last_pass.ops, TRUE) # {}
    /\ Range(last_pass.selected) \cap last_pass.held # {}


\* the latest pass was a scheduled pass in standard mode whose operations
\* have all been applied
PassSettled ==
    /\ last_pass.kind = "tick"
    /\ ~last_pass.skipped
    /\ ~config.always_replace_current
    /\ PassIds \subseteq AppliedIds

-----------------------------------------------------------------------------
(* The schedule: ticks of one config as the clock moves, with enqueues that *)
(* may raise, and a consumer that has not applied anything yet              *)

InitTime ==
    /\ role_queue = <<>>
    /\ operation = <<>>
    /\ consumer = "running"
    /\ closed = FALSE
    /\ next_id = 0
    /\ applied = <<>>
    /\ attempt_log = <<>>
    /\ audit = {"passes"}
    /\ last_pass = NoPass
    /\ NoTable
    /\ enqueue_faults \in BOOLEAN
    /\ member_initial = {1, 2}
    /\ member_target \in {{}, {1}}
    /\ member_blacklisted = {}
    /\ member_timed_out = {}
    /\ member_bot = {}
    /\ status = AllOnline
    /\ config \in {c \in Configs : /\ c.max_users = 1
                                   /\ ~c.remove_when_offline
                                   /\ ~c.prioritize_active
                                   /\ ~c.ignore_timed_out
                                   /\ ~c.always_replace_current}
    /\ now = 0

NextTime ==
    \/ RotateSpotlight
    \/ Advance

SpecTime == InitTime /\ [][NextTime]_vars

\* the step is a scheduled pass in which some enqueue raised
IsFailedPass == IsScheduledPass /\ last_pass'.errors # {}

\* the step is a scheduled pass in which every enqueue returned
IsSuccessfulPass == IsScheduledPass /\ last_pass'.errors = {}

\* C8: a scheduled pass in which some enqueue raised leaves last_rotation as
\* it was, so the config is due again at the next tick, whenever that is.
C8_FailedPassRetried ==
    [][IsFailedPass =>
        /\ config'.last_rotation = config.last_rotation
        /\ \A t \in TimePoints : t >= now => IsDue(config', t)]_vars

\* a pass with a previous rotation time, one enqueue that raised and one
\* that returned
C8_Witness ==
    /\ last_pass.kind = "tick"
    /\ last_pass.errors # {}
    /\ last_pass.ops # <<>>
    /\ last_pass.before # <<>>
    /\ config.last_rotation = last_pass.before

\* C9 as claimed: a successful scheduled pass with previous last_rotation L
\* stores L + k * interval for the largest k >= 0 that keeps it at or before
\* now, the interval being the config's duration between rotations (hours,
\* or one minute for the debug value); with no previous value it stores now.
C9_SnapsToGrid ==
    [][IsSuccessfulPass =>
        IF config.last_rotation = <<>>
        THEN config'.last_rotation = <<now>>
        ELSE LET L == config.last_rotation[1]
                 stored == config'.last_rotation[1]
             IN  /\ stored <= now
                 /\ \E k \in 0 .. now :
                        /\ stored = L + k * DueInterval(config)
                        /\ L + (k + 1) * DueInterval(config) > now]_vars

\* C10 as claimed: right after a successful scheduled pass the due check, at
\* the same clock reading, finds the config not due.
C10_NotDueAfterPass ==
    [][IsSuccessfulPass => ~IsDue(config', now')]_vars

-----------------------------------------------------------------------------
(* The role mutation queue on its own: any producer, the consumer, shutdown *)

\* a freshly constructed cog in a guild where nobody holds the target role
InitQueue ==
    /\ role_queue = <<>>
    /\ operation = <<>>
    /\ consumer = "running"
    /\ closed = FALSE
    /\ next_id = 0
    /\ applied = <<>>
    /\ attempt_log = <<>>
    /\ audit = {"attempts", "applied"}
    /\ last_pass = NoPass
    /\ NoTable
    /\ enqueue_faults = FALSE
    /\ member_initial = Members
    /\ member_target = {}
    /\ member_blacklisted = {}
    /\ member_timed_out = {}
    /\ member_bot = {}
    /\ status = AllOnline
    /\ config \in {c \in Configs : /\ c.max_users = 1
                                   /\ c.rotation_interval = 1
                                   /\ ~c.remove_when_offline
                                   /\ ~c.prioritize_active
                                   /\ ~c.ignore_timed_out
                                   /\ ~c.always_replace_current}
    /\ now = 0

NextQueue ==
    \/ \E add \in BOOLEAN : EnqueueCall(1, add)
    \/ TakeOperation
    \/ \E outcome \in Outcomes : CompleteOperation(outcome)
    \/ Close
    \/ ConsumerExit

SpecQueue == InitQueue /\ [][NextQueue]_vars


FairSpecQueue ==
    /\ SpecQueue
    /\ WF_vars(TakeOperation)
    /\ WF_vars(\E outcome \in Outcomes : CompleteOperation(outcome))

-----------------------------------------------------------------------------
(* Claims about the role mutation queue *)

\* the operations not yet finished: the one the consumer holds, then the queue
Pending == operation \o role_queue
PendingIds == {Pending[i].id : i \in DOMAIN Pending}
QueuedIds == {role_queue[i].id : i \in DOMAIN role_queue}

\* number of platform calls made for operation id
Calls(id) == Cardinality({i \in DOMAIN attempt_log : attempt_log[i] = id})

\* C4: an operation is attempted at most 3 times; its first and its second
\* transient failure put it back at the front of the queue, its third drops
\* it, and an operation that has left the queue never comes back.
C4_BoundedRetry ==
    /\ [](\A id \in 1 .. next_id : Calls(id) <= 3)
    /\ [][CompleteOperation("http") =>
            LET op == operation[1]
            IN  IF Calls(op.id) < 3
                THEN /\ role_queue' # <<>>
                     /\ Head(role_queue').id = op.id
                     /\ Tail(role_queue') = role_queue
                ELSE /\ role_queue' = role_queue
                     /\ op.id \notin PendingIds']_vars
    /\ [][\A id \in 1 .. next_id :
            (id \notin PendingIds) => (id \notin PendingIds')]_vars

\* an operation was dropped after its third transient failure
C4_Witness ==
    \E id \in 1 .. next_id :
        /\ Calls(id) = 3
        /\ id \notin PendingIds
        /\ id \notin AppliedIds

\* C5: platform calls are made in enqueue order, a re-queued operation being
\* called again before any operation enqueued after it: the ids of the calls
\* never decrease (ids are given in enqueue order).
C5_AttemptOrder ==
    \A i, j \in DOMAIN attempt_log : i < j => attempt_log[i] <= attempt_log[j]

\* the consumer is calling the platform again for an operation that failed,
\* while operations enqueued after it wait in the queue
C5_Witness ==
    /\ operation # <<>>
    /\ operation[1].attempts >= 1
    /\ Len(role_queue) >= 2
    /\ Len(attempt_log) >= 2

\* op2 failed twice and succeeded on its third call, op1 and op3 succeeded on
\* their first call
C6_Scenario ==
    /\ {1, 2, 3} \subseteq AppliedIds
    /\ Calls(1) = 1
    /\ Calls(2) = 3
    /\ Calls(3) = 1

C6_Order == SelectSeq(applied, LAMBDA id : id \in {1, 2, 3})

\* C6 as claimed: in that scenario the operations are applied in the order
\* op1, op3, op2.
C6_AppliedOrderClaimed == C6_Scenario => C6_Order = <<1, 3, 2>>

\* C6 amended: in that scenario the operations are applied in the order
\* op1, op2, op3 (the retried op2 stays ahead of op3).
C6_AppliedOrder == C6_Scenario => C6_Order = <<1, 2, 3>>

C6_Witness == C6_Scenario /\ C6_Order = <<1, 2, 3>>

\* C7: while the bot is not closed, every queued operation eventually leaves
\* the queue and the consumer (applied or dropped), and the consumer loop
\* ends only when the bot is closed.
C7_QueueDrains ==
    /\ \A id \in 1 .. MaxOps :
          (id \in PendingIds) ~> (id \notin PendingIds \/ closed)
    /\ [](consumer = "exited" => closed)

\* the consumer dropped an operation on an unexpected error and an operation
\* after three transient failures, and then applied a later one
C7_Witness ==
    /\ consumer = "running"
    /\ \E a, b, c \in 1 .. next_id :
          /\ a < c /\ b < c /\ a # b
          /\ Calls(a) = 3 /\ a \notin PendingIds /\ a \notin AppliedIds
          /\ Calls(b) = 1 /\ b \notin PendingIds /\ b \notin AppliedIds
          /\ c \in AppliedIds


-----------------------------------------------------------------------------
(* The whole engine for one config: ticks, force commands, presence events, *)
(* the queue consumer and the clock.  Nobody holds the target role at the   *)
(* start and no role is changed by hand.                                    *)

Init ==
    /\ role_queue = <<>>
    /\ operation = <<>>
    /\ consumer = "running"
    /\ closed = FALSE
    /\ next_id = 0
    /\ applied = <<>>
    /\ attempt_log = <<>>
    /\ audit = {}
    /\ last_pass = NoPass
    /\ NoTable
    /\ enqueue_faults = FALSE
    /\ member_initial = Members
    /\ member_target = {}
    /\ member_blacklisted = {}
    /\ member_timed_out = {}
    /\ member_bot = {}
    /\ status = AllOnline
    /\ config \in {c \in Configs : /\ c.rotation_interval = 1
                                   /\ c.remove_when_offline
                                   /\ ~c.ignore_timed_out}
    /\ now = 150

Next ==
    \/ RotateSpotlight
    \/ ForceRotate
    \/ \E m \in Members, s \in {"online", "offline"} : PresenceUpdate(m, s)
    \/ TakeOperation
    \/ \E outcome \in Outcomes : CompleteOperation(outcome)
    \/ Advance

Spec == Init /\ [][Next]_vars

\* C1 as claimed: whenever the role queue is empty, at most max_users members
\* hold both the initial and the target role.
C1_HoldersBounded ==
    role_queue = <<>> => Cardinality(CurrentSpotlight) <= config.max_users


-----------------------------------------------------------------------------
(* Claims about the due check *)

\* the duration between rotations the config asks for: hours, or one minute
\* for the debug value
RotationInterval(c) ==
    IF c.rotation_interval = DebugInterval THEN DebugMinutes
    ELSE c.rotation_interval * MinutesPerHour

\* C11: the tick takes a config as due exactly when last_rotation is null or
\* now >= last_rotation + rotation_interval, and a config with a null
\* last_rotation is due for every interval and every clock reading.
C11_DueCheck ==
    /\ [](\A t \in TimePoints :
            IsDue(config, t) <=>
                \/ config.last_rotation = <<>>
                \/ /\ config.last_rotation # <<>>
                   /\ t >= config.last_rotation[1] + RotationInterval(config))
    /\ [](\A i \in Intervals, t \in TimePoints :
            IsDue([config EXCEPT !.rotation_interval = i,
                                 !.last_rotation = <<>>], t))
    /\ [][RotateSpotlight =>
            \/ config.last_rotation = <<>>
            \/ /\ config.last_rotation # <<>>
               /\ now >= config.last_rotation[1] + RotationInterval(config)]_vars

\* a pass that ran at the very minute the interval was reached
C11_Witness ==
    /\ last_pass.kind = "tick"
    /\ last_pass.before # <<>>
    /\ last_pass.at = last_pass.before[1] + RotationInterval(config)
    /\ now = last_pass.at


-----------------------------------------------------------------------------
(* Claims about eligibility and selection *)

\* an eligible member: holds the initial role, holds no blacklisted role
\* and, if the config says so, is not timed out
Eligible(c) ==
    {m \in Members :
        /\ m \in member_initial
        /\ m \notin member_blacklisted
        /\ c.ignore_timed_out => m \notin member_timed_out}

\* C12: with prioritize_active, the standard-mode selection of a scheduled
\* pass holds no offline member while an active eligible member is left
\* out, and it holds min(max_users, number of eligible members) members.
C12_ActiveFirst ==
    [][(IsScheduledPass /\ config.prioritize_active
                        /\ ~config.always_replace_current) =>
        LET selected == last_pass'.selected
            active == {m \in Eligible(config) : status[m] # "offline"}
        IN  /\ (\E m \in Range(selected) : status[m] = "offline") =>
                   active \subseteq Range(selected)
            /\ Len(selected) = Min(config.max_users, Cardinality(Eligible(config)))
            /\ Cardinality(Range(selected)) = Len(selected)]_vars

\* a pass that filled a slot with an offline member after taking the one
\* active member, and a pass that left an offline member out
C12_Witness ==
    /\ last_pass.kind = "tick"
    /\ ~last_pass.skipped
    /\ config.prioritize_active
    /\ ~config.always_replace_current
    /\ \E m \in Range(last_pass.selected) : status[m] = "offline"
    /\ \E m \in Range(last_pass.selected) : status[m] # "offline"
    /\ \E m \in Eligible(config) : m \notin Range(last_pass.selected)


-----------------------------------------------------------------------------
(* One scheduled pass in either mode, from a queue with nothing pending *)

InitModes ==
    /\ role_queue = <<>>
    /\ operation = <<>>
    /\ consumer = "running"
    /\ closed = FALSE
    /\ next_id = 0
    /\ applied = <<>>
    /\ attempt_log = <<>>
    /\ audit = {"applied", "passes"}
    /\ last_pass = NoPass
    /\ NoTable
    /\ enqueue_faults = FALSE
    /\ GuildStates
    /\ config \in {c \in Configs : /\ c.rotation_interval = 1
                                   /\ ~c.remove_when_offline}
    /\ now = 0

NextModes ==
    \/ RotateSpotlight
    \/ TakeOperation
    \/ \E outcome \in Outcomes : CompleteOperation(outcome)

SpecModes == InitModes /\ [][NextModes]_vars

\* eligible members that do not hold the target role
EligibleNonHolders(c) == Eligible(c) \ member_target

\* the step is a scheduled pass in forced-replace mode that found a holder
IsForcedReplace ==
    /\ IsScheduledPass
    /\ config.always_replace_current
    /\ CurrentSpotlight # {}

\* C13: a forced-replace pass that finds current holders enqueues revokes
\* for min(|current holders|, |eligible replacements|) distinct holders,
\* grants for as many replacements without the target role, and further
\* grants only for the slots that remain below max_users.
C13_ForcedReplace ==
    [][IsForcedReplace =>
        LET n == Min(Cardinality(CurrentSpotlight),
                     Cardinality(EligibleNonHolders(config)))
            revoked == MembersOf(NewlyQueued, FALSE)
            granted == MembersOf(NewlyQueued, TRUE)
            slots == Max(0, config.max_users - Cardinality(CurrentSpotlight))
        IN  /\ revoked \subseteq CurrentSpotlight
            /\ Cardinality(revoked) = n
            /\ granted \subseteq EligibleNonHolders(config)
            /\ Cardinality(granted) >= n
            /\ Cardinality(granted) - n =
                   IF n = 0 THEN 0
                   ELSE Min(slots, Cardinality(EligibleNonHolders(config)) - n)
            /\ Len(NewlyQueued) = Cardinality(revoked) + Cardinality(granted)]_vars

\* a forced-replace pass that replaced a holder and filled a free slot
C13_Witness ==
    /\ last_pass.kind = "tick"
    /\ config.always_replace_current
    /\ last_pass.current # {}
    /\ Cardinality(MembersOf(last_pass.ops, FALSE)) = 1
    /\ Cardinality(MembersOf(last_pass.ops, TRUE)) = 2


\* the latest pass was a forced-replace scheduled pass that started with
\* nothing pending, and all its operations have been applied
ForcedPassSettled ==
    /\ last_pass.kind = "tick"
    /\ ~last_pass.skipped
    /\ config.always_replace_current
    /\ last_pass.queue_len = 0
    /\ ~last_pass.in_flight
    /\ PassIds \subseteq AppliedIds

\* C14 as claimed: once the operations of a forced-replace pass are applied,
\* at most max_users members hold both roles, however many members held
\* them before the pass and however many replacements there were.
C14_ForcedBounded ==
    ForcedPassSettled => Cardinality(CurrentSpotlight) <= config.max_users


-----------------------------------------------------------------------------
(* Presence eviction on its own: members come and go, the consumer works *)

InitPresence ==
    /\ role_queue = <<>>
    /\ operation = <<>>
    /\ consumer = "running"
    /\ closed = FALSE
    /\ next_id = 0
    /\ applied = <<>>
    /\ attempt_log = <<>>
    /\ audit = {"passes"}
    /\ last_pass = NoPass
    /\ NoTable
    /\ enqueue_faults = FALSE
    /\ member_initial \in {Members, Members \ {1}}
    /\ member_target \in {{1}, {1, 2}}
    /\ \E marked \in BOOLEAN :
          /\ member_blacklisted = IF marked THEN {2} ELSE {}
          /\ member_timed_out = IF marked THEN {3} ELSE {}
    /\ member_bot \in {{}, {NumMembers}}
    /\ status = AllOnline
    /\ config \in {c \in Configs : /\ c.rotation_interval = 1
                                   /\ c.max_users = 1
                                   /\ ~c.always_replace_current}
    /\ now = 0

NextPresence ==
    \/ \E m \in Members, s \in {"online", "offline"} : PresenceUpdate(m, s)
    \/ TakeOperation
    \/ \E outcome \in Outcomes : CompleteOperation(outcome)

SpecPresence == InitPresence /\ [][NextPresence]_vars

\* the members that can replace member m when it goes offline: eligible,
\* not m, without the target role
Replacements(c, m) == EligibleNonHolders(c) \ {m}

\* the step is the presence handler for a member that holds the target role
\* and goes offline, under a config with remove_when_offline
IsEviction(m) ==
    /\ PresenceUpdate(m, "offline")
    /\ config.remove_when_offline
    /\ m \in member_target

\* C15 as claimed: when a holder of the target role goes offline under
\* remove_when_offline, the handler enqueues one revoke for that member and
\* one grant for another eligible member without the target role if there
\* is one, nothing if there is none, and never changes last_rotation.
C15_PresenceEvictionClaimed ==
    [][\A m \in Members : IsEviction(m) =>
        /\ config' = config
        /\ IF Replacements(config, m) = {}
           THEN NewlyQueued = <<>>
           ELSE /\ Len(NewlyQueued) = 2
                /\ NewlyQueued[1].member = m
                /\ ~NewlyQueued[1].add
                /\ NewlyQueued[2].add
                /\ NewlyQueued[2].member \in Replacements(config, m)]_vars

\* C15, amended: the same, the replacement being an eligible member that is
\* not a bot and does not hold the target role.
C15_PresenceEviction ==
    [][\A m \in Members : IsEviction(m) =>
        /\ config' = config
        /\ IF Replacements(config, m) \ member_bot = {}
           THEN NewlyQueued = <<>>
           ELSE /\ Len(NewlyQueued) = 2
                /\ NewlyQueued[1].member = m
                /\ ~NewlyQueued[1].add
                /\ NewlyQueued[2].add
                /\ NewlyQueued[2].member \in Replacements(config, m) \ member_bot]_vars

\* an eviction that enqueued a revoke and a grant, with two members to
\* choose the replacement from
C15_Witness ==
    /\ last_pass.kind = "presence"
    /\ Len(last_pass.ops) = 2
    /\ Len(role_queue) + Len(operation) >= 2
    /\ Cardinality(member_initial \ (member_target \cup member_bot)) >= 2


-----------------------------------------------------------------------------
(* Claims about who is granted the role and in which order *)

\* C16: every member a scheduled pass grants the target role to holds the
\* initial role, holds no blacklisted role and, with ignore_timed_out, is not
\* timed out, in standard and in forced-replace mode.
C16_GrantsEligible ==
    [][IsScheduledPass =>
        \A m \in MembersOf(NewlyQueued, TRUE) :
            /\ m \in member_initial
            /\ m \notin member_blacklisted
            /\ config.ignore_timed_out => m \notin member_timed_out]_vars

\* a pass that granted the role while a blacklisted and a timed-out member
\* held the initial role and ignore_timed_out was set
C16_Witness ==
    /\ last_pass.kind = "tick"
    /\ MembersOf(last_pass.ops, TRUE) # {}
    /\ config.ignore_timed_out
    /\ member_blacklisted \cap member_initial # {}
    /\ member_timed_out \cap member_initial # {}

\* C18: within one scheduled pass every revoke is enqueued before every
\* grant, in standard and in forced-replace mode.
C18_RevokesFirst ==
    [][IsScheduledPass =>
        \A i, j \in DOMAIN NewlyQueued :
            (~NewlyQueued[i].add /\ NewlyQueued[j].add) => i < j]_vars

\* a forced-replace pass that enqueued a revoke and two grants
C18_Witness ==
    /\ last_pass.kind = "tick"
    /\ config.always_replace_current
    /\ MembersOf(last_pass.ops, FALSE) # {}
    /\ Cardinality(MembersOf(last_pass.ops, TRUE)) >= 2
    /\ Len(role_queue) = Len(last_pass.ops)


-----------------------------------------------------------------------------
(* The three rotation paths in a guild with a blacklisted member *)

InitPaths ==
    /\ role_queue = <<>>
    /\ operation = <<>>
    /\ consumer = "running"
    /\ closed = FALSE
    /\ next_id = 0
    /\ applied = <<>>
    /\ attempt_log = <<>>
    /\ audit = {"passes"}
    /\ last_pass = NoPass
    /\ NoTable
    /\ enqueue_faults = FALSE
    /\ member_initial = Members
    /\ member_target = {}
    /\ member_blacklisted = {2}
    /\ member_timed_out = {}
    /\ member_bot = {}
    /\ status = AllOnline
    /\ config \in {c \in Configs : /\ c.rotation_interval = 1
                                   /\ c.max_users = 1
                                   /\ c.remove_when_offline
                                   /\ ~c.ignore_timed_out
                                   /\ ~c.prioritize_active}
    /\ now = 0

NextPaths ==
    \/ RotateSpotlight
    \/ ForceRotate
    \/ \E m \in Members, s \in {"online", "offline"} : PresenceUpdate(m, s)
    \/ TakeOperation
    \/ \E outcome \in Outcomes : CompleteOperation(outcome)

SpecPaths == InitPaths /\ [][NextPaths]_vars

\* C17 as claimed: no rotation path, scheduled tick, force command or
\* presence eviction, enqueues a grant for a member that holds one of the
\* config's blacklisted roles.
C17_NoBlacklistedGrant ==
    [][\A i \in DOMAIN NewlyQueued :
          NewlyQueued[i].add => NewlyQueued[i].member \notin member_blacklisted]_vars


-----------------------------------------------------------------------------
(* Claims about rejected operations *)

\* C19 as claimed: when the platform rejects the operation in flight as
\* forbidden, the consumer drops it: it is not on the queue afterwards.
C19_ForbiddenDropped ==
    [][CompleteOperation("forbidden") => operation[1].id \notin QueuedIds']_vars


-----------------------------------------------------------------------------
(* The tick over several configs as the clock moves *)

\* the rows the tick starts with: two configs of guild 1 with the same
\* initial role, further ones in guild 2
TickGuild(id) == IF id <= 2 THEN 1 ELSE 2
TickInitial(id) == IF id <= 2 THEN 11 ELSE 21
TickTarget(id) == IF id = 1 THEN 12 ELSE IF id = 2 THEN 13 ELSE 22

InitTick ==
    /\ role_queue = <<>>
    /\ operation = <<>>
    /\ consumer = "running"
    /\ closed = FALSE
    /\ next_id = 0
    /\ applied = <<>>
    /\ attempt_log = <<>>
    /\ audit = {"ticks"}
    /\ last_pass = NoPass
    /\ enqueue_faults = FALSE
    /\ member_initial = Members
    /\ member_target = {}
    /\ member_blacklisted = {}
    /\ member_timed_out = {}
    /\ member_bot = {}
    /\ status = AllOnline
    /\ config \in {c \in Configs : /\ c.max_users = 1
                                   /\ c.rotation_interval = 1
                                   /\ ~c.remove_when_offline
                                   /\ ~c.prioritize_active
                                   /\ ~c.ignore_timed_out
                                   /\ ~c.always_replace_current}
    /\ now = 0
    /\ table = [id \in ConfigIds |->
                   NewRow(TickGuild(id), TickInitial(id), TickTarget(id),
                          Settings(1, 1 + (id % 2), NoFlags))]
    /\ tick_log = <<>>
    /\ loop = "running"
    /\ last_rowid = NumConfigs
    /\ live_guilds = Guilds
    /\ live_roles = Roles
    /\ channels = [guild \in Guilds |-> [system |-> "writable", text |-> TRUE]]
    /\ store_log = NoOperation
    /\ NoCogs

NextTick ==
    \/ TickTable
    \/ Advance

SpecTick == InitTick /\ [][NextTick]_vars

\* the body of config id raised in the latest tick
Raised(log, id) ==
    \E i \in DOMAIN log : log[i].id = id /\ log[i].outcome = "raised"

\* C20: when the body of a due config raises during a tick, the tick still
\* processes every other due config, the last_rotation of the config that
\* raised stays as it was, and the periodic tick keeps running.
C20_TickIsolation ==
    [][(TickTable /\ \E id \in DueRows(now) : Raised(tick_log', id)) =>
        /\ {tick_log'[i].id : i \in DOMAIN tick_log'} = DueRows(now)
        /\ \A id \in DueRows(now) :
               Raised(tick_log', id) =>
                   table'[id].last_rotation = table[id].last_rotation
        /\ loop' = "running"]_vars

\* a tick in which the first due config raised and a later one stored its
\* rotation time, with the config that raised still due
C20_Witness ==
    /\ Len(tick_log) >= 2
    /\ tick_log[1].outcome = "raised"
    /\ tick_log[2].outcome = "done"
    /\ table[tick_log[1].id].last_rotation # <<>>
    /\ table[tick_log[2].id].last_rotation = <<now>>
    /\ IsDue(table[tick_log[1].id], now)
    /\ loop = "running"


-----------------------------------------------------------------------------
(* The commands on the table and the role-deletion listener *)

AllFlags == <<TRUE, TRUE, TRUE, TRUE>>

\* max_users as typed into a command: the ends of the accepted range and
\* the values next to them
MaxUsersInputs == {MinUsers - 1, MinUsers, MaxUsers, MaxUsers + 1}

\* what the set command is given besides the roles
SettingInputs ==
    {Settings(MinUsers, 1, NoFlags), Settings(MaxUsers, 2, AllFlags),
     Settings(MinUsers - 1, 1, NoFlags), Settings(MaxUsers + 1, 1, NoFlags)}

\* an optional parameter: not given, or one of values
Optional(values) == {<<>>} \cup {<<v>> : v \in values}

\* no rows yet; the guilds have all their roles
InitStore ==
    /\ role_queue = <<>>
    /\ operation = <<>>
    /\ consumer = "running"
    /\ closed = FALSE
    /\ next_id = 0
    /\ applied = <<>>
    /\ attempt_log = <<>>
    /\ audit = {"writes"}
    /\ last_pass = NoPass
    /\ enqueue_faults = FALSE
    /\ member_initial = Members
    /\ member_target = {}
    /\ member_blacklisted = {}
    /\ member_timed_out = {}
    /\ member_bot = {}
    /\ status = AllOnline
    /\ config \in {c \in Configs : /\ c.max_users = 1
                                   /\ c.rotation_interval = 1
                                   /\ ~c.remove_when_offline
                                   /\ ~c.prioritize_active
                                   /\ ~c.ignore_timed_out
                                   /\ ~c.always_replace_current}
    /\ now = 150
    /\ table = <<>>
    /\ tick_log = <<>>
    /\ loop = "running"
    /\ last_rowid = 0
    /\ live_guilds = Guilds
    /\ live_roles = Roles
    /\ channels = [guild \in Guilds |-> [system |-> "writable", text |-> TRUE]]
    /\ store_log = NoOperation
    /\ NoCogs

\* the roles the commands are given: in guild 1 two initial roles and the
\* role above the bot, and three target roles; in guild 2 one of each
InitialInputs(guild) == IF guild = 1 THEN {11, 12, 14} ELSE {21}
TargetInputs(guild) == IF guild = 1 THEN {11, 12, 13} ELSE {22}

NextStore ==
    \/ \E guild \in Guilds :
       \E initial_role \in InitialInputs(guild), target_role \in TargetInputs(guild) :
       \E settings \in SettingInputs :
           SetSpotlight(guild, initial_role, target_role, settings)
    \/ \E guild \in Guilds, id \in RowIds :
       \E initial_role \in Optional(InitialInputs(guild) \ {11}) :
       \E target_role \in Optional(TargetInputs(guild) \ {11}) :
       \E max_users \in Optional({MaxUsers + 1}) :
           EditSpotlight(guild, id, initial_role, target_role, max_users, <<>>, <<>>)
    \/ \E guild \in Guilds, id \in RowIds : RemoveSpotlight(guild, id)

SpecStore == InitStore /\ [][NextStore]_vars


-----------------------------------------------------------------------------
(* The tick over configs whose guild or roles are gone *)

\* the rows of InitTick, in guilds the bot can write to
InitStale ==
    /\ role_queue = <<>>
    /\ operation = <<>>
    /\ consumer = "running"
    /\ closed = FALSE
    /\ next_id = 0
    /\ applied = <<>>
    /\ attempt_log = <<>>
    /\ audit = {"ticks", "writes"}
    /\ last_pass = NoPass
    /\ enqueue_faults = FALSE
    /\ member_initial = Members
    /\ member_target = {}
    /\ member_blacklisted = {}
    /\ member_timed_out = {}
    /\ member_bot = {}
    /\ status = AllOnline
    /\ config \in {c \in Configs : /\ c.max_users = 1
                                   /\ c.rotation_interval = 1
                                   /\ ~c.remove_when_offline
                                   /\ ~c.prioritize_active
                                   /\ ~c.ignore_timed_out
                                   /\ ~c.always_replace_current}
    /\ now = 0
    /\ table = [id \in ConfigIds |->
                   NewRow(TickGuild(id), TickInitial(id), TickTarget(id),
                          Settings(1, 1 + (id % 2), NoFlags))]
    /\ tick_log = <<>>
    /\ loop = "running"
    /\ last_rowid = NumConfigs
    /\ live_guilds = Guilds
    /\ live_roles = Roles
    /\ channels = [guild \in Guilds |-> [system |-> "writable", text |-> TRUE]]
    /\ store_log = NoOperation
    /\ NoCogs

NextStale ==
    \/ TickTable
    \/ Advance
    \/ \E role \in {11, 12, 13} : LoseRole(role)
    \/ \E guild \in Guilds : LeaveGuild(guild)

SpecStale == InitStale /\ [][NextStale]_vars

\* the guilds the latest operation sent a notification to
Notified(log) == {log.notices[i].guild : i \in DOMAIN log.notices}

\* C21: when a due config's guild, initial role or target role no longer
\* exists at rotation time, the scheduled pass deletes that config, enqueues
\* no role operation for it, and notifies the guild if the guild is still
\* reachable (the bot is in it and has a channel it can notify in).
C21_StaleConfigNotified ==
    [][TickTable =>
        \A id \in DueRows(now) :
            IsStale(table[id]) =>
                /\ id \notin DOMAIN table'
                /\ role_queue' = role_queue
                /\ (table[id].guild_id \in live_guilds /\ SendReturns(table[id].guild_id))
                       => table[id].guild_id \in Notified(store_log')]_vars


-----------------------------------------------------------------------------
(* Role deletion *)

\* the rows of InitTick, in guilds with any kind of channels
InitRoles ==
    /\ role_queue = <<>>
    /\ operation = <<>>
    /\ consumer = "running"
    /\ closed = FALSE
    /\ next_id = 0
    /\ applied = <<>>
    /\ attempt_log = <<>>
    /\ audit = {"writes"}
    /\ last_pass = NoPass
    /\ enqueue_faults = FALSE
    /\ member_initial = Members
    /\ member_target = {}
    /\ member_blacklisted = {}
    /\ member_timed_out = {}
    /\ member_bot = {}
    /\ status = AllOnline
    /\ config \in {c \in Configs : /\ c.max_users = 1
                                   /\ c.rotation_interval = 1
                                   /\ ~c.remove_when_offline
                                   /\ ~c.prioritize_active
                                   /\ ~c.ignore_timed_out
                                   /\ ~c.always_replace_current}
    /\ now = 0
    /\ table = [id \in ConfigIds |->
                   NewRow(TickGuild(id), TickInitial(id), TickTarget(id),
                          Settings(1, 1 + (id % 2), NoFlags))]
    /\ tick_log = <<>>
    /\ loop = "running"
    /\ last_rowid = NumConfigs
    /\ live_guilds = Guilds
    /\ live_roles = Roles
    /\ channels \in {[guild \in Guilds |-> ch] : ch \in ChannelStates}
    /\ store_log = NoOperation
    /\ NoCogs

NextRoles ==
    \/ \E role \in Roles : RoleDelete(role)
    \/ \E guild \in Guilds :
       \E initial_role \in InitialInputs(guild), target_role \in TargetInputs(guild) :
           SetSpotlight(guild, initial_role, target_role, Settings(MinUsers, 1, NoFlags))
    \/ \E guild \in Guilds, id \in RowIds : RemoveSpotlight(guild, id)

SpecRoles == InitRoles /\ [][NextRoles]_vars

\* the row refers to the role as its initial or its target role
RefersTo(row, role) ==
    /\ row.guild_id = RoleGuild(role)
    /\ row.initial_role_id = role \/ row.target_role_id = role

\* C22: when a role is deleted, every config of that guild whose initial or
\* target role is that role is deleted and, in a guild with a text channel
\* the bot may write to, a notification is sent to the guild's system
\* channel or first writable channel; configs that do not reference the
\* role are left unchanged.
C22_RoleDeleteNotifies ==
    [][\A role \in Roles :
        RoleDelete(role) =>
            /\ \A id \in DOMAIN table :
                   IF RefersTo(table[id], role)
                   THEN id \notin DOMAIN table'
                   ELSE id \in DOMAIN table' /\ table'[id] = table[id]
            /\ ((\E id \in DOMAIN table : RefersTo(table[id], role))
                  /\ channels[RoleGuild(role)].text)
                   => /\ store_log'.notices # <<>>
                      /\ \A i \in DOMAIN store_log'.notices :
                             /\ store_log'.notices[i].guild = RoleGuild(role)
                             /\ store_log'.notices[i].channel \in {"system", "text"}]_vars


-----------------------------------------------------------------------------
(* What the set and edit commands store *)

\* the answers of a command that refused its parameters
Refusals == {"max_users", "above_bot", "same_role", "target_used"}

\* C23: after any sequence of set and edit commands every stored config has
\* 1 <= max_users <= 8 and an initial role different from its target role,
\* and a command rejected for max_users out of range, identical roles, a
\* role not below the bot's highest role, or a target role already used
\* leaves the stored configs unchanged.
C23_StoredConfigsValid ==
    /\ [](\A id \in DOMAIN table :
             /\ MinUsers <= table[id].max_users
             /\ table[id].max_users <= MaxUsers
             /\ table[id].initial_role_id # table[id].target_role_id)
    /\ [][(store_log'.op \in {"set", "edit"} /\ store_log'.answer \in Refusals)
             => table' = table]_vars

\* an edit command was refused for its max_users while a config with the
\* largest max_users is stored
C23_Witness ==
    /\ store_log.op = "edit"
    /\ store_log.answer = "max_users"
    /\ \E id \in DOMAIN table : table[id].max_users = MaxUsers


\* C24: after any sequence of set, edit and remove commands, no two configs
\* of the same guild share a target role.
C24_TargetsDistinct ==
    \A a \in DOMAIN table : \A b \in DOMAIN table :
        (a # b /\ table[a].guild_id = table[b].guild_id)
            => table[a].target_role_id # table[b].target_role_id

\* a guild with two configs in which a command was refused because its
\* target role is used by another config
C24_Witness ==
    /\ store_log.answer = "target_used"
    /\ Cardinality(GuildRows(store_log.guild)) = 2


-----------------------------------------------------------------------------
(* Every operation that writes the table *)

\* the rows of InitTick, at a later moment
InitWrites ==
    /\ role_queue = <<>>
    /\ operation = <<>>
    /\ consumer = "running"
    /\ closed = FALSE
    /\ next_id = 0
    /\ applied = <<>>
    /\ attempt_log = <<>>
    /\ audit = {"writes"}
    /\ last_pass = NoPass
    /\ enqueue_faults = FALSE
    /\ member_initial = Members
    /\ member_target = {}
    /\ member_blacklisted = {}
    /\ member_timed_out = {}
    /\ member_bot = {}
    /\ status = AllOnline
    /\ config \in {c \in Configs : /\ c.max_users = 1
                                   /\ c.rotation_interval = 1
                                   /\ ~c.remove_when_offline
                                   /\ ~c.prioritize_active
                                   /\ ~c.ignore_timed_out
                                   /\ ~c.always_replace_current}
    /\ now = 150
    /\ table = [id \in ConfigIds |->
                   NewRow(TickGuild(id), TickInitial(id), TickTarget(id),
                          Settings(1, 1 + (id % 2), NoFlags))]
    /\ tick_log = <<>>
    /\ loop = "running"
    /\ last_rowid = NumConfigs
    /\ live_guilds = Guilds
    /\ live_roles = Roles
    /\ channels = [guild \in Guilds |-> [system |-> "writable", text |-> TRUE]]
    /\ store_log = NoOperation
    /\ NoCogs

NextWrites ==
    \/ TickTable
    \/ LoseRole(12)
    \/ \E guild \in Guilds : LeaveGuild(guild)
    \/ RoleDelete(13)
    \/ \E target_role \in {12, 13} :
           SetSpotlight(1, 11, target_role, Settings(MinUsers, 1, NoFlags))
    \/ \E id \in RowIds, initial_role \in Optional({12}) :
           EditSpotlight(1, id, initial_role, <<>>, <<>>, <<>>, <<>>)
    \/ \E guild \in Guilds, id \in RowIds : RemoveSpotlight(guild, id)
    \/ \E option \in 0 .. 2, role \in Optional({13}), slot \in Optional({1}) :
           BlacklistRole(1, 1, option, role, slot)
    \/ \E guild \in Guilds, id \in Optional({1}) : SetSpotlightTime(guild, id, 0)
    \/ \E guild \in Guilds, id \in Optional({1}) : ForceTable(guild, id)

SpecWrites == InitWrites /\ [][NextWrites]_vars

\* the guilds of which a row was inserted, updated or deleted by the step
WrittenGuilds(before, after) ==
    {guild \in Guilds :
        \E id \in DOMAIN before \cup DOMAIN after :
            /\ id \in DOMAIN before => before[id].guild_id = guild
            /\ id \in DOMAIN after => after[id].guild_id = guild
            /\ \/ id \notin DOMAIN before
               \/ id \notin DOMAIN after
               \/ before[id] # after[id]}

\* C25: every operation that inserts, updates or deletes a row of the table
\* (set, edit, blacklist, time, force, remove, the role-deletion listener and
\* the scheduled rotation with its stale-reference deletions) invalidates the
\* cache entry of the affected guild.
C25_WritesInvalidate ==
    [][WrittenGuilds(table, table') \subseteq store_log'.invalidated]_vars


-----------------------------------------------------------------------------
(* The set command on a config that exists *)

\* the rows of InitTick, at a later moment
InitUpsert ==
    /\ role_queue = <<>>
    /\ operation = <<>>
    /\ consumer = "running"
    /\ closed = FALSE
    /\ next_id = 0
    /\ applied = <<>>
    /\ attempt_log = <<>>
    /\ audit = {"writes"}
    /\ last_pass = NoPass
    /\ enqueue_faults = FALSE
    /\ member_initial = Members
    /\ member_target = {}
    /\ member_blacklisted = {}
    /\ member_timed_out = {}
    /\ member_bot = {}
    /\ status = AllOnline
    /\ config \in {c \in Configs : /\ c.max_users = 1
                                   /\ c.rotation_interval = 1
                                   /\ ~c.remove_when_offline
                                   /\ ~c.prioritize_active
                                   /\ ~c.ignore_timed_out
                                   /\ ~c.always_replace_current}
    /\ now = 150
    /\ table = [id \in ConfigIds |->
                   NewRow(TickGuild(id), TickInitial(id), TickTarget(id),
                          Settings(1, 1 + (id % 2), NoFlags))]
    /\ tick_log = <<>>
    /\ loop = "running"
    /\ last_rowid = NumConfigs
    /\ live_guilds = Guilds
    /\ live_roles = Roles
    /\ channels = [guild \in Guilds |-> [system |-> "writable", text |-> TRUE]]
    /\ store_log = NoOperation
    /\ NoCogs

NextUpsert ==
    \/ \E guild \in Guilds :
       \E initial_role \in InitialInputs(guild) \ {12, 14} :
       \E target_role \in TargetInputs(guild), settings \in SettingInputs :
           SetSpotlight(guild, initial_role, target_role, settings)
    \/ \E guild \in Guilds, id \in RowIds : RemoveSpotlight(guild, id)
    \/ \E option \in 0 .. 2, role \in Optional({13}), slot \in Optional({4}) :
           BlacklistRole(1, 1, option, role, slot)
    \/ \E id \in Optional({1}) : SetSpotlightTime(1, id, 0)

SpecUpsert == InitUpsert /\ [][NextUpsert]_vars

\* C26: the set command for an existing (guild, initial role, target role)
\* triple, with parameters the command accepts, updates max_users, the
\* rotation interval and the four policy flags in place: the number of
\* configs of the guild, the config id, last_rotation and the blacklist slots
\* are unchanged.
C26_SetUpdatesInPlace ==
    [][\A row \in DOMAIN table : \A settings \in SettingInputs :
           (/\ store_log'.op = "set"
            /\ SetSpotlight(table[row].guild_id, table[row].initial_role_id,
                            table[row].target_role_id, settings)
            /\ settings.max_users \in MinUsers .. MaxUsers
            /\ {table[row].initial_role_id, table[row].target_role_id} \cap AboveBot = {})
               => /\ DOMAIN table' = DOMAIN table
                  /\ \A id \in DOMAIN table :
                         IF id = row
                         THEN /\ table'[id].max_users = settings.max_users
                              /\ table'[id].rotation_interval = settings.rotation_interval
                              /\ FlagsOf(table'[id]) = FlagsOf(settings)
                              /\ table'[id].guild_id = table[id].guild_id
                              /\ table'[id].initial_role_id = table[id].initial_role_id
                              /\ table'[id].target_role_id = table[id].target_role_id
                              /\ table'[id].last_rotation = table[id].last_rotation
                              /\ table'[id].blacklisted = table[id].blacklisted
                         ELSE table'[id] = table[id]]_vars

\* a set command updated a config that has a last_rotation and a
\* blacklisted role, with values that differ from the ones it was created with
C26_Witness ==
    /\ store_log.op = "set"
    /\ store_log.answer = "updated"
    /\ \E id \in GuildRows(store_log.guild) :
           /\ table[id].max_users = MaxUsers
           /\ table[id].always_replace_current
           /\ table[id].last_rotation # <<>>
           /\ \E slot \in Slots : table[id].blacklisted[slot] \notin {<<>>, <<0>>}

-----------------------------------------------------------------------------
(* Ban sync: on_member_ban *)

\* the user whose bans are synchronised, and who can have banned them
User == "user"
Banners == {"actor", "bot"}

\* the positions of the top roles of a guild
Positions == 1 .. 2

\* what fetch_member finds for the actor in a guild: <<>> is NotFound
ActorFacts ==
    {<<>>} \cup {<<[top |-> top, ban_members |-> ban_members]>> :
                     top \in Positions, ban_members \in BOOLEAN}

\* what fetch_member finds for the banned user in a guild: <<>> is NotFound
UserFacts ==
    {<<>>} \cup {<<[top |-> top, bot |-> bot, administrator |-> administrator]>> :
                     top \in Positions, bot \in BOOLEAN, administrator \in BOOLEAN}

\* the bot in a guild it is in
BotFacts == ActorFacts \ {<<>>}

\* the calls of one iteration of on_member_ban that can raise HTTPException
SyncFaults == {"none", "actor_fetch", "user_fetch", "fetch_ban", "admin_fetch", "ban"}

\* _get_linked_guilds
LinkedGuilds(guild) ==
    {link[1] : link \in {l \in links : l[2] = guild /\ l[1] # guild}}
        \cup {link[2] : link \in {l \in links : l[1] = guild /\ l[2] # guild}}

\* the hierarchy check with the comparison the wrong way round for equal roles
OutranksStrictly(banned_member, actor_member) == banned_member.top > actor_member.top

\* banned_member.top_role >= actor_member.top_role
Outranks(banned_member, actor_member) == banned_member.top >= actor_member.top

\* one iteration of the loop of on_member_ban over the linked guilds: "skip" is
\* continue (or the fall through after a caught exception), "abort" an exception
\* that leaves the listener, "failed" a ban call that raised, "banned" a ban
\* call that returned. actor is <<>> when the audit log named nobody.
SyncOutcome(actor, alert, actor_member, banned_member, banned, fault) ==
    IF actor = <<>> THEN (IF alert THEN "abort" ELSE "skip")
    ELSE IF fault = "actor_fetch" THEN "skip"
    ELSE IF actor_member = <<>> THEN "skip"
    ELSE IF ~actor_member[1].ban_members THEN "skip"
    ELSE IF fault = "user_fetch" THEN "skip"
    ELSE IF banned_member # <<>> /\ banned_member[1].bot THEN "skip"
    ELSE IF banned_member # <<>> /\ Outranks(banned_member[1], actor_member[1]) THEN "skip"
    ELSE IF fault = "fetch_ban" THEN "skip"
    ELSE IF banned THEN "skip"
    ELSE IF fault = "admin_fetch" THEN "abort"
    ELSE IF banned_member # <<>> /\ banned_member[1].administrator THEN "skip"
    ELSE IF fault = "ban" THEN "failed"
    ELSE "banned"

\* the iterations of the loop that send a ban alert: the target guild has an
\* alert channel, and the actor is no member of it or lacks the ban
\* permission there, or the user is a bot there or not below the actor
Alerts(actor, alert, actor_member, banned_member, fault) ==
    /\ alert
    /\ actor # <<>>
    /\ fault # "actor_fetch"
    /\ \/ actor_member = <<>>
       \/ ~actor_member[1].ban_members
       \/ /\ fault # "user_fetch"
          /\ banned_member # <<>>
          /\ banned_member[1].bot \/ Outranks(banned_member[1], actor_member[1])

\* the orders in which a for loop can go through a set
Orders(set) ==
    {order \in [1 .. Cardinality(set) -> set] :
        \A i, j \in 1 .. Cardinality(set) : order[i] = order[j] => i = j}

\* what fetch_member(actor.id) finds in a linked guild
ActorMember(actor, me, linked_guild) ==
    IF actor = <<"bot">> THEN me ELSE members[linked_guild].actor

\* the variables the ban sync leaves alone
spotlight_vars == <<queue_vars, enqueue_faults, guild_vars, config, now, last_pass,
                    table, tick_log, loop, last_rowid, platform_vars, store_log>>
ban_frame == <<spotlight_vars, link_vars, card_vars, other_cogs>>

\* the loop of on_member_ban from its entry, or from the end of a sleep, up to
\* the next sleep, the end of the loop or an exception that leaves the listener
SyncLoop(guild, actor, me, todo, events, keys, asleep) ==
    \E order \in Orders(todo \cap live_guilds) :
    \E faults \in [todo \cap live_guilds -> SyncFaults] :
        LET outcome(i) ==
                SyncOutcome(actor, order[i] \in alert_channels,
                            ActorMember(actor, me, order[i]), members[order[i]].user,
                            <<order[i], User>> \in bans, faults[order[i]])
            stops == {i \in 1 .. Len(order) : outcome(i) \in {"banned", "abort"}}
            stop == IF stops = {} THEN Len(order) + 1
                    ELSE CHOOSE i \in stops : \A j \in stops : i <= j
            failed == {order[i] : i \in {j \in 1 .. Len(order) : j < stop /\ outcome(j) = "failed"}}
            ban_returned == stop <= Len(order) /\ outcome(stop) = "banned"
            alerted == {order[i] : i \in {j \in 1 .. Len(order) :
                           /\ j < stop
                           /\ Alerts(actor, order[j] \in alert_channels,
                                     ActorMember(actor, me, order[j]),
                                     members[order[j]].user, faults[order[j]])}}
            sent == {[to |-> linked_guild, from |-> guild, by |-> actor] :
                        linked_guild \in alerted}
        IN  IF ban_returned
            THEN /\ alert_log' = alert_log \cup sent
                 /\ bans' = bans \cup {<<order[stop], User>>}
                 /\ members' = [members EXCEPT ![order[stop]].user = <<>>]
                 /\ processing_ban' = keys \cup {<<linked_guild, User>> : linked_guild \in failed \cup {order[stop]}}
                 /\ ban_events' = events \cup {<<order[stop], "bot">>}
                 /\ syncing' = asleep \cup
                               {[guild |-> guild, actor |-> actor, me |-> me, at |-> order[stop],
                                 rest |-> {order[i] : i \in {j \in 1 .. Len(order) : j > stop}}]}
                 /\ ban_log' = [guild |-> guild, linked_guild |-> order[stop], actor |-> actor,
                                actor_member |-> ActorMember(actor, me, order[stop]),
                                banned_member |-> members[order[stop]].user]
            ELSE /\ processing_ban' = keys \cup {<<linked_guild, User>> : linked_guild \in failed}
                 /\ ban_events' = events
                 /\ syncing' = asleep
                 /\ alert_log' = alert_log \cup sent
                 /\ UNCHANGED <<bans, members, ban_log>>

\* a moderator bans the user in a guild: the platform records the ban, removes
\* the member and dispatches the ban event
MemberBanned(guild) ==
    /\ <<guild, User>> \notin bans
    /\ bans' = bans \cup {<<guild, User>>}
    /\ members' = [members EXCEPT ![guild].user = <<>>]
    /\ ban_events' = ban_events \cup {<<guild, "actor">>}
    /\ UNCHANGED <<ban_frame, links, alert_channels, processing_ban, syncing, ban_log,
                   alert_log>>

\* on_member_ban up to its first sleep. own_entry_seen: the first read of the
\* audit log shows the entry of the ban; entry_seen: the second one does.
OnMemberBan(guild, by, own_entry_seen, entry_seen, me) ==
    /\ <<guild, by>> \in ban_events
    /\ IF \/ <<guild, User>> \in processing_ban
          \/ by = "bot" /\ own_entry_seen
       THEN /\ ban_events' = ban_events \ {<<guild, by>>}
            /\ UNCHANGED <<bans, members, processing_ban, syncing, ban_log, alert_log>>
       ELSE SyncLoop(guild, IF entry_seen THEN <<by>> ELSE <<>>, me, LinkedGuilds(guild),
                     ban_events \ {<<guild, by>>}, processing_ban, syncing)
    /\ UNCHANGED <<ban_frame, links, alert_channels>>

\* on_member_ban from the end of asyncio.sleep(5) on
AfterSleep(handler) ==
    /\ handler \in syncing
    /\ SyncLoop(handler.guild, handler.actor, handler.me, handler.rest, ban_events,
                processing_ban \ {<<handler.at, User>>}, syncing \ {handler})
    /\ UNCHANGED <<ban_frame, links, alert_channels>>


\* the Spotlight cog with an empty table, an empty queue and one configuration
NoSpotlight ==
    /\ role_queue = <<>>
    /\ operation = <<>>
    /\ consumer = "running"
    /\ closed = FALSE
    /\ next_id = 0
    /\ applied = <<>>
    /\ attempt_log = <<>>
    /\ audit = {}
    /\ last_pass = NoPass
    /\ enqueue_faults = FALSE
    /\ member_initial = Members
    /\ member_target = {}
    /\ member_blacklisted = {}
    /\ member_timed_out = {}
    /\ member_bot = {}
    /\ status = AllOnline
    /\ config \in {c \in Configs : /\ c.max_users = 1
                                   /\ c.rotation_interval = 1
                                   /\ ~c.remove_when_offline
                                   /\ ~c.prioritize_active
                                   /\ ~c.ignore_timed_out
                                   /\ ~c.always_replace_current}
    /\ now = 0
    /\ table = <<>>
    /\ tick_log = <<>>
    /\ loop = "running"
    /\ last_rowid = 0
    /\ live_roles = Roles
    /\ channels = [guild \in Guilds |-> [system |-> "writable", text |-> TRUE]]
    /\ store_log = NoOperation

\* two linked guilds, in each of them every combination of what the actor and
\* the user can be there, and nobody banned
InitBan ==
    /\ NoSpotlight
    /\ NoUpdates
    /\ NoSticky
    /\ live_guilds \in {Guilds, {1}}
    /\ links = {<<1, 2>>}
    /\ alert_channels \in {{}, Guilds}
    /\ members \in [Guilds -> [actor : ActorFacts, user : UserFacts]]
    /\ bans = {}
    /\ processing_ban = {}
    /\ ban_events = {}
    /\ syncing = {}
    /\ ban_log = <<>>
    /\ alert_log = {}
    /\ NoRequests
    /\ NoCard

NextBan ==
    \/ \E guild \in Guilds : MemberBanned(guild)
    \/ \E guild \in Guilds, by \in Banners :
       \E own_entry_seen \in BOOLEAN, entry_seen \in BOOLEAN, me \in BotFacts :
           OnMemberBan(guild, by, own_entry_seen, entry_seen, me)
    \/ \E handler \in syncing : AfterSleep(handler)

SpecBan == InitBan /\ [][NextBan]_vars

\* the bot's ban of the user in a linked guild, as a step
SyncBans(linked_guild) ==
    /\ <<linked_guild, User>> \in bans' \ bans
    /\ <<linked_guild, "bot">> \in ban_events' \ ban_events

\* C27: when the bot bans the user in a linked guild because of a ban in
\* another guild, the actor of that ban is a member of the linked guild with
\* the ban permission, and the user, if a member of the linked guild, is not a
\* bot, has a top role strictly below the actor's and is not an administrator
C27_SyncBanGated ==
    [][\A linked_guild \in Guilds :
          SyncBans(linked_guild) =>
              /\ members[linked_guild].actor # <<>>
              /\ members[linked_guild].actor[1].ban_members
              /\ members[linked_guild].user # <<>> =>
                     /\ ~members[linked_guild].user[1].bot
                     /\ members[linked_guild].user[1].top < members[linked_guild].actor[1].top
                     /\ ~members[linked_guild].user[1].administrator]_vars

\* the bot has banned the user in a linked guild of which the user was a member
C27_Witness ==
    /\ ban_log # <<>>
    /\ ban_log.actor = <<"actor">>
    /\ ban_log.banned_member # <<>>
    /\ <<ban_log.linked_guild, User>> \in bans

-----------------------------------------------------------------------------
(* Ban sync: link requests *)

\* the number of link requests a behaviour sends
MaxRequests == 1

\* the most links a guild can have
MaxLinks == 8

\* the row of ban_sync_links of two guilds, and the key of their request
LinkKey(guild, target_guild) ==
    IF guild <= target_guild THEN <<guild, target_guild>> ELSE <<target_guild, guild>>

\* get_link_count
LinkCount(guild) == Cardinality(LinkedGuilds(guild))

\* the buttons of GuildLinkRequestView
Buttons == {"accept", "reject", "blacklist"}

\* a request as add_link leaves it when it starts to wait: the task waits for
\* view.approved, the view listens, nobody has decided. The last four fields
\* are histories: whether an administrator or the owner of the target guild
\* accepted, rejected or blacklisted, and whether a timeout ended the wait or
\* the view.
NewRequest(guild, target_guild) ==
    [guild |-> guild, target_guild |-> target_guild, task |-> "waiting",
     approved |-> FALSE, view |-> "listening", decision |-> "none", callbacks |-> {},
     accepted |-> FALSE, rejected |-> FALSE, blacklisted |-> FALSE, timed_out |-> FALSE]

\* the variables the link commands leave alone
link_frame == <<spotlight_vars, alert_channels, members, bans, processing_ban, ban_events,
                syncing, ban_log, alert_log, card_vars, other_cogs>>

\* add_link up to its wait for view.approved. has_admin_in_target: the user is
\* an administrator or the owner of the target guild; sent: alert_channel.send
\* returned.
AddLink(guild, target_guild, has_admin_in_target, sent) ==
    /\ IF \/ guild = target_guild
          \/ LinkCount(guild) >= MaxLinks
          \/ LinkCount(target_guild) >= MaxLinks
          \/ target_guild \notin live_guilds
          \/ LinkKey(guild, target_guild) \in links
          \/ <<target_guild, guild>> \in request_blacklist
       THEN UNCHANGED <<links, link_vars>>
       ELSE IF has_admin_in_target
       THEN /\ links' = links \cup {LinkKey(guild, target_guild)}
            /\ link_log' = link_log \cup {[link |-> LinkKey(guild, target_guild),
                                           has_admin_in_target |-> TRUE, request |-> 0]}
            /\ UNCHANGED <<pending_requests, request_blacklist, requests>>
       ELSE IF \/ target_guild \notin alert_channels
               \/ LinkKey(guild, target_guild) \in pending_requests
       THEN UNCHANGED <<links, link_vars>>
       ELSE /\ Len(requests) < MaxRequests
            /\ pending_requests' = pending_requests \cup {LinkKey(guild, target_guild)}
            /\ requests' = IF sent THEN Append(requests, NewRequest(guild, target_guild))
                           ELSE requests
            /\ UNCHANGED <<links, request_blacklist, link_log>>
    /\ UNCHANGED link_frame

\* a button callback of the view of a request from the click to its first
\* await after the decision. permitted: the user who clicks is an
\* administrator or the owner of the guild of the message.
Click(r, button, permitted) ==
    /\ r \in DOMAIN requests
    /\ requests[r].view = "listening"
    /\ IF ~permitted
       THEN UNCHANGED <<requests, request_blacklist>>
       ELSE LET callback == [button |-> button, at |-> "decided"]
                request == [requests[r] EXCEPT !.callbacks = @ \cup {callback}]
            IN  /\ requests' =
                       [requests EXCEPT ![r] =
                           IF button = "accept"
                           THEN [request EXCEPT !.decision = "accepted", !.accepted = TRUE]
                           ELSE IF button = "reject"
                           THEN [request EXCEPT !.decision = "rejected", !.rejected = TRUE]
                           ELSE [request EXCEPT !.blacklisted = TRUE]]
                /\ request_blacklist' =
                       IF button = "blacklist"
                       THEN request_blacklist \cup {<<requests[r].target_guild, requests[r].guild>>}
                       ELSE request_blacklist
    /\ UNCHANGED <<link_frame, links, pending_requests, link_log>>

\* a callback from the message update to its followup: accept sets
\* view.approved; all three delete the pending request. edited: the
\* message.edit of blacklist_guild returned.
Decided(r, callback, edited) ==
    /\ r \in DOMAIN requests
    /\ callback \in requests[r].callbacks
    /\ callback.at = "decided"
    /\ IF callback.button = "blacklist" /\ ~edited
       THEN /\ requests' = [requests EXCEPT ![r].callbacks = @ \ {callback}]
            /\ UNCHANGED pending_requests
       ELSE /\ requests' = [requests EXCEPT
                               ![r].callbacks = (@ \ {callback}) \cup {[callback EXCEPT !.at = "cleaned"]},
                               ![r].approved = @ \/ callback.button = "accept"]
            /\ pending_requests' = pending_requests \ {LinkKey(requests[r].guild, requests[r].target_guild)}
    /\ UNCHANGED <<link_frame, links, request_blacklist, link_log>>

\* a callback from its followup on: self.stop(), unless followup.send raised
Stop(r, callback, sent) ==
    /\ r \in DOMAIN requests
    /\ callback \in requests[r].callbacks
    /\ callback.at = "cleaned"
    /\ requests' = [requests EXCEPT ![r].callbacks = @ \ {callback},
                                    ![r].view = IF sent THEN "stopped" ELSE @]
    /\ UNCHANGED <<link_frame, links, pending_requests, request_blacklist, link_log>>

\* add_link after view.approved was set: the INSERT, which raises when the
\* row exists
CompleteLink(r) ==
    /\ r \in DOMAIN requests
    /\ requests[r].task = "waiting"
    /\ requests[r].approved
    /\ LET link == LinkKey(requests[r].guild, requests[r].target_guild)
       IN  IF link \in links
           THEN /\ requests' = [requests EXCEPT ![r].task = "failed"]
                /\ UNCHANGED <<links, link_log>>
           ELSE /\ requests' = [requests EXCEPT ![r].task = "linked"]
                /\ links' = links \cup {link}
                /\ link_log' = link_log \cup {[link |-> link, has_admin_in_target |-> FALSE,
                                               request |-> r]}
    /\ UNCHANGED <<link_frame, pending_requests, request_blacklist>>

\* add_link when its wait of 24 hours ends with view.approved not set
TimeoutLink(r) ==
    /\ r \in DOMAIN requests
    /\ requests[r].task = "waiting"
    /\ ~requests[r].approved
    /\ requests' = [requests EXCEPT ![r].task = "expired", ![r].timed_out = TRUE]
    /\ UNCHANGED <<link_frame, links, pending_requests, request_blacklist, link_log>>

\* GuildLinkRequestView.on_timeout, 24 hours after the last interaction: by
\* then the callbacks have ended and add_link has seen view.approved
ViewTimeout(r) ==
    /\ r \in DOMAIN requests
    /\ requests[r].view = "listening"
    /\ requests[r].callbacks = {}
    /\ ~(requests[r].task = "waiting" /\ requests[r].approved)
    /\ requests' = [requests EXCEPT ![r].view = "stopped", ![r].timed_out = TRUE]
    /\ pending_requests' = pending_requests \ {LinkKey(requests[r].guild, requests[r].target_guild)}
    /\ UNCHANGED <<link_frame, links, request_blacklist, link_log>>

\* remove_link
RemoveLink(guild, target_guild) ==
    /\ links' = links \ {LinkKey(guild, target_guild)}
    /\ link_log' = {entry \in link_log : entry.link # LinkKey(guild, target_guild)}
    /\ UNCHANGED <<link_frame, pending_requests, request_blacklist, requests>>

\* two guilds with alert channels and no link
InitLink ==
    /\ NoSpotlight
    /\ NoUpdates
    /\ NoSticky
    /\ live_guilds = Guilds
    /\ links = {}
    /\ alert_channels \in {Guilds, {1}}
    /\ members = [guild \in Guilds |-> [actor |-> <<>>, user |-> <<>>]]
    /\ bans = {}
    /\ processing_ban = {}
    /\ ban_events = {}
    /\ syncing = {}
    /\ ban_log = <<>>
    /\ alert_log = {}
    /\ NoRequests
    /\ NoCard

NextLink ==
    \/ \E guild \in Guilds, target_guild \in Guilds :
       \E has_admin_in_target \in BOOLEAN, sent \in BOOLEAN :
           AddLink(guild, target_guild, has_admin_in_target, sent)
    \/ \E r \in 1 .. MaxRequests, button \in Buttons, permitted \in BOOLEAN :
           Click(r, button, permitted)
    \/ \E r \in DOMAIN requests : \E callback \in requests[r].callbacks, edited \in BOOLEAN :
           Decided(r, callback, edited)
    \/ \E r \in DOMAIN requests : \E callback \in requests[r].callbacks, sent \in BOOLEAN :
           Stop(r, callback, sent)
    \/ \E r \in 1 .. MaxRequests : CompleteLink(r)
    \/ \E r \in 1 .. MaxRequests : TimeoutLink(r)
    \/ \E r \in 1 .. MaxRequests : ViewTimeout(r)
    \/ \E guild \in Guilds, target_guild \in Guilds : RemoveLink(guild, target_guild)

SpecLink == InitLink /\ [][NextLink]_vars

\* C28: a link is inserted only for a requester who was an administrator or
\* the owner of the target guild, or by a request that an administrator or the
\* owner of the target guild accepted and that, by then, nobody has rejected
\* or blacklisted and no timeout has ended
C28_LinkOnlyIfAuthorised ==
    [][\A entry \in link_log' \ link_log :
          \/ entry.has_admin_in_target
          \/ /\ entry.request \in DOMAIN requests
             /\ requests[entry.request].accepted
             /\ ~requests[entry.request].rejected
             /\ ~requests[entry.request].blacklisted
             /\ ~requests[entry.request].timed_out]_vars

-----------------------------------------------------------------------------
(* Card: the table of prefixes and suffixes *)

\* the characters of the texts: "VS16" is the variation selector U+FE0F
Chars == {"x", "VS16"}

\* the length of the longest text
MaxText == 2

\* the texts, and the optional texts: <<>> is None, <<text>> a str
Texts == UNION {[1 .. n -> Chars] : n \in 0 .. MaxText}
OptionalTexts == {<<>>} \cup {<<text>> : text \in Texts}

\* transform_emoji: the text without its variation selectors
transform_emoji(text) ==
    IF text = <<>> THEN text ELSE SelectSeq(text, LAMBDA char : char # "VS16")

\* INSERT OR REPLACE INTO guild_role_prefix_suffix
Replaced(rows, guild_id, role_id, prefix, suffix) ==
    [key \in DOMAIN rows \cup {<<guild_id, role_id>>} |->
        IF key = <<guild_id, role_id>> THEN [prefix |-> prefix, suffix |-> suffix]
        ELSE rows[key]]

\* DELETE FROM guild_role_prefix_suffix
Deleted(rows, guild_id, role_id) ==
    [key \in DOMAIN rows \ {<<guild_id, role_id>>} |-> rows[key]]

\* a column as get_role_prefix_suffix returns it: None for NULL and for ''
Column(value) ==
    IF value = <<>> \/ value = <<<<>>>> THEN <<>> ELSE <<transform_emoji(value[1])>>

\* get_role_prefix_suffix: <<>> is None
get_role_prefix_suffix(rows, guild_id, role_id) ==
    IF <<guild_id, role_id>> \in DOMAIN rows
    THEN <<[prefix |-> Column(rows[<<guild_id, role_id>>].prefix),
            suffix |-> Column(rows[<<guild_id, role_id>>].suffix)]>>
    ELSE <<>>


-----------------------------------------------------------------------------
(* Card: the guild locks of the set, remove and sync commands *)

\* the number of commands a behaviour runs
MaxCommands == 3

Kinds == {"set", "remove", "sync"}

\* asyncio.Lock(): not locked, nobody waiting. holder is a history: the
\* command whose acquire() returned last, <<>> once the lock is released.
NewLock == [locked |-> FALSE, waiters |-> <<>>, holder |-> <<>>]

\* _get_guild_lock, before the lock is stored
GuildLock(guild) == IF guild \in DOMAIN guild_locks THEN guild_locks[guild] ELSE NewLock

\* guild_locks with the lock of a guild put in or replaced
WithLock(guild, lock) ==
    [g \in DOMAIN guild_locks \cup {guild} |-> IF g = guild THEN lock ELSE guild_locks[g]]

\* Lock.release() behind `if guild_lock.locked()`
Released(lock) == [lock EXCEPT !.locked = FALSE, !.holder = <<>>]

\* the record of a guild_lock.release() call: held tells whether the command
\* that called it held the lock
Release(c, lock) ==
    [op |-> "release", command |-> c, guild |-> card_commands[c].guild,
     held |-> lock.holder = <<c>>]

\* the commands inside the section of a guild that the lock protects
Inside(guild) ==
    {c \in DOMAIN card_commands : /\ card_commands[c].guild = guild
                                  /\ card_commands[c].at \in {"inside", "stored"}}

\* the variables the commands of Card leave alone
card_frame == <<spotlight_vars, ban_vars, link_vars, other_cogs>>

\* a command from its start to guild_lock.acquire(): it gets the lock when
\* the lock is free and nobody waits, and waits otherwise
StartCommand(kind, guild, role, prefix, suffix) ==
    /\ Len(card_commands) < MaxCommands
    /\ kind = "set" => prefix # <<>> \/ suffix # <<>>
    /\ LET c == Len(card_commands) + 1
           lock == GuildLock(guild)
           free == ~lock.locked /\ lock.waiters = <<>>
       IN  /\ card_commands' =
                  Append(card_commands,
                         [kind |-> kind, guild |-> guild, role |-> role, prefix |-> prefix,
                          suffix |-> suffix, at |-> IF free THEN "inside" ELSE "waiting"])
           /\ guild_locks' =
                  WithLock(guild, IF free THEN [lock EXCEPT !.locked = TRUE, !.holder = <<c>>]
                                  ELSE [lock EXCEPT !.waiters = Append(@, c)])
    /\ UNCHANGED <<card_frame, role_prefix_suffix, card_log>>

\* acquire() of the first waiter returns after a release
Acquire(c) ==
    /\ c \in DOMAIN card_commands
    /\ card_commands[c].at = "waiting"
    /\ LET lock == guild_locks[card_commands[c].guild]
       IN  /\ ~lock.locked
           /\ lock.waiters # <<>>
           /\ Head(lock.waiters) = c
           /\ guild_locks' = [guild_locks EXCEPT ![card_commands[c].guild] =
                                 [locked |-> TRUE, waiters |-> Tail(lock.waiters), holder |-> <<c>>]]
    /\ card_commands' = [card_commands EXCEPT ![c].at = "inside"]
    /\ UNCHANGED <<card_frame, role_prefix_suffix, card_log>>

\* wait_for gives up after 5 seconds in which the lock stayed locked: the
\* command tells the user and returns. sent: followup.send returned. When it
\* raises, set and remove let the exception go; sync catches it and releases
\* the lock if it is locked.
AcquireTimeout(c, sent) ==
    /\ c \in DOMAIN card_commands
    /\ card_commands[c].at = "waiting"
    /\ LET guild == card_commands[c].guild
           lock == [guild_locks[guild] EXCEPT !.waiters = SelectSeq(@, LAMBDA w : w # c)]
       IN  /\ lock.locked
           /\ IF card_commands[c].kind = "sync" /\ ~sent
              THEN /\ guild_locks' = [guild_locks EXCEPT ![guild] = Released(lock)]
                   /\ card_log' = Release(c, lock)
              ELSE /\ guild_locks' = [guild_locks EXCEPT ![guild] = lock]
                   /\ UNCHANGED card_log
    /\ card_commands' = [card_commands EXCEPT ![c].at = "done"]
    /\ UNCHANGED <<card_frame, role_prefix_suffix>>

\* set and remove inside the section, up to the first await after their write
\* to the table
Store(c) ==
    /\ c \in DOMAIN card_commands
    /\ card_commands[c].at = "inside"
    /\ card_commands[c].kind \in {"set", "remove"}
    /\ LET command == card_commands[c]
           current == get_role_prefix_suffix(role_prefix_suffix, command.guild, command.role)
       IN  role_prefix_suffix' =
               IF command.kind = "set"
               THEN Replaced(role_prefix_suffix, command.guild, command.role,
                             command.prefix, command.suffix)
               ELSE IF current = <<>> \/ (current[1].prefix = <<>> /\ current[1].suffix = <<>>)
               THEN role_prefix_suffix
               ELSE Deleted(role_prefix_suffix, command.guild, command.role)
    /\ card_commands' = [card_commands EXCEPT ![c].at = "stored"]
    /\ UNCHANGED <<card_frame, guild_locks, card_log>>

\* the end of the section, by return or by exception: the finally clause
\* releases the lock if it is locked
Finish(c) ==
    /\ c \in DOMAIN card_commands
    /\ card_commands[c].at \in {"inside", "stored"}
    /\ LET guild == card_commands[c].guild
           lock == guild_locks[guild]
       IN  IF lock.locked
           THEN /\ guild_locks' = [guild_locks EXCEPT ![guild] = Released(lock)]
                /\ card_log' = Release(c, lock)
           ELSE UNCHANGED <<guild_locks, card_log>>
    /\ card_commands' = [card_commands EXCEPT ![c].at = "done"]
    /\ UNCHANGED <<card_frame, role_prefix_suffix>>

\* no command yet, no lock yet, an empty table
InitCard ==
    /\ NoSpotlight
    /\ NoUpdates
    /\ NoSticky
    /\ live_guilds = Guilds
    /\ links = {}
    /\ alert_channels = {}
    /\ NoBans
    /\ NoRequests
    /\ NoCard

NextCard ==
    \/ \E kind \in Kinds, guild \in Guilds :
           StartCommand(kind, guild, 11, <<<<"x">>>>, <<>>)
    \/ \E c \in 1 .. MaxCommands : Acquire(c)
    \/ \E c \in 1 .. MaxCommands, sent \in BOOLEAN : AcquireTimeout(c, sent)
    \/ \E c \in 1 .. MaxCommands : Store(c)
    \/ \E c \in 1 .. MaxCommands : Finish(c)

SpecCard == InitCard /\ [][NextCard]_vars

\* C29: in each guild at most one command is inside the section the guild
\* lock protects; a locked guild lock is unlocked only by the command that
\* holds it; and a command whose acquire times out changes neither the table
\* nor whether the lock is locked
C29_GuildLockExclusive ==
    /\ [](\A guild \in Guilds : Cardinality(Inside(guild)) <= 1)
    /\ [][\A guild \in DOMAIN guild_locks :
             guild_locks[guild].locked /\ ~guild_locks'[guild].locked
                 => card_log'.held]_vars
    /\ [][\A c \in DOMAIN card_commands :
             card_commands[c].at = "waiting" /\ card_commands'[c].at = "done"
                 => /\ role_prefix_suffix' = role_prefix_suffix
                    /\ guild_locks'[card_commands[c].guild].locked
                           = guild_locks[card_commands[c].guild].locked]_vars


-----------------------------------------------------------------------------
(* Card: set_role_prefix_suffix and get_role_prefix_suffix *)

\* set_role_prefix_suffix: False when both texts are None, else INSERT OR REPLACE
SetRolePrefixSuffix(guild_id, role_id, prefix, suffix) ==
    /\ role_prefix_suffix' =
           IF prefix = <<>> /\ suffix = <<>> THEN role_prefix_suffix
           ELSE Replaced(role_prefix_suffix, guild_id, role_id, prefix, suffix)
    /\ card_log' = [op |-> "set", guild_id |-> guild_id, role_id |-> role_id,
                    prefix |-> prefix, suffix |-> suffix,
                    result |-> ~(prefix = <<>> /\ suffix = <<>>)]
    /\ UNCHANGED <<card_frame, guild_locks, card_commands>>

\* get_role_prefix_suffix, with what it returns
GetRolePrefixSuffix(guild_id, role_id) ==
    /\ card_log' = [op |-> "get", guild_id |-> guild_id, role_id |-> role_id,
                    result |-> get_role_prefix_suffix(role_prefix_suffix, guild_id, role_id)]
    /\ UNCHANGED <<card_frame, guild_locks, card_commands, role_prefix_suffix>>

\* remove_role_prefix_suffix
RemoveRolePrefixSuffix(guild_id, role_id) ==
    /\ role_prefix_suffix' = Deleted(role_prefix_suffix, guild_id, role_id)
    /\ card_log' = [op |-> "remove", guild_id |-> guild_id, role_id |-> role_id,
                    result |-> <<guild_id, role_id>> \in DOMAIN role_prefix_suffix]
    /\ UNCHANGED <<card_frame, guild_locks, card_commands>>

\* every text for role 11, one text for role 12
NextEmoji ==
    \/ \E prefix \in OptionalTexts, suffix \in OptionalTexts :
           SetRolePrefixSuffix(1, 11, prefix, suffix)
    \/ SetRolePrefixSuffix(1, 12, <<<<"x">>>>, <<>>)
    \/ \E role_id \in {11, 12} : GetRolePrefixSuffix(1, role_id)
    \/ \E role_id \in {11, 12} : RemoveRolePrefixSuffix(1, role_id)

SpecEmoji == InitCard /\ [][NextEmoji]_vars

\* C30: a get_role_prefix_suffix that follows a successful
\* set_role_prefix_suffix for the same guild and role returns exactly the
\* prefix and the suffix that were stored
C30_SetThenGetRoundTrip ==
    [][(/\ card_log # <<>>
        /\ card_log.op = "set"
        /\ card_log.result
        /\ card_log'.op = "get"
        /\ card_log'.guild_id = card_log.guild_id
        /\ card_log'.role_id = card_log.role_id)
           => card_log'.result = <<[prefix |-> card_log.prefix, suffix |-> card_log.suffix]>>]_vars


-----------------------------------------------------------------------------
(* The force command and last_rotation *)

\* force_rotate for the one stored config when nobody holds the initial role:
\* the config is skipped and nothing is stored for it
ForceSkipped ==
    /\ member_initial = {}
    /\ last_pass' = Recorded("passes", last_pass,
          [kind |-> "force", skipped |-> TRUE, selected |-> <<>>,
           current |-> CurrentSpotlight, held |-> member_target, ops |-> <<>>,
           errors |-> {}, first_id |-> next_id, queue_len |-> Len(role_queue),
           in_flight |-> (operation # <<>>), before |-> config.last_rotation,
           at |-> now])
    /\ UNCHANGED <<tick_vars, queue_vars, enqueue_faults, guild_vars, config, now>>

\* the rows the force command is tried on
ForceRows ==
    [id \in ConfigIds |->
        NewRow(TickGuild(id), TickInitial(id), TickTarget(id),
               Settings(1, 1 + (id % 2), NoFlags))]

\* either one guild followed member by member, where the initial role has
\* two holders or none and queue_role_operation may raise, or the stored
\* rows of a guild whose roles may disappear
InitForce ==
    /\ role_queue = <<>>
    /\ operation = <<>>
    /\ consumer = "running"
    /\ closed = FALSE
    /\ next_id = 0
    /\ applied = <<>>
    /\ attempt_log = <<>>
    /\ audit = {"passes", "writes"}
    /\ last_pass = NoPass
    /\ enqueue_faults = TRUE
    /\ member_target = {1}
    /\ member_blacklisted = {}
    /\ member_timed_out = {}
    /\ member_bot = {}
    /\ status = AllOnline
    /\ config \in {c \in Configs : /\ c.max_users = 1
                                   /\ c.rotation_interval = 1
                                   /\ ~c.remove_when_offline
                                   /\ ~c.prioritize_active
                                   /\ ~c.ignore_timed_out
                                   /\ ~c.always_replace_current}
    /\ now = 0
    /\ \/ member_initial = {1, 2} /\ table = <<>>
       \/ member_initial = {} /\ table \in {<<>>, ForceRows}
    /\ tick_log = <<>>
    /\ loop = "running"
    /\ last_rowid = Len(table)
    /\ live_guilds = Guilds
    /\ live_roles = Roles
    /\ channels = [guild \in Guilds |-> [system |-> "writable", text |-> TRUE]]
    /\ store_log = NoOperation
    /\ NoCogs

NextForce ==
    \/ ForceRotate
    \/ ForceSkipped
    \/ Advance
    \/ \E guild \in Guilds : \E id \in Optional(ConfigIds) : ForceTable(guild, id)
    \/ LoseRole(12)

SpecForce == InitForce /\ [][NextForce]_vars

\* the rows of a guild that the force command skips for a missing role
SkippedRows(guild) ==
    {id \in GuildRows(guild) :
        {table[id].initial_role_id, table[id].target_role_id} \ live_roles # {}}

\* C31: the force command stores the wall-clock time as last_rotation of a
\* config it rotates; it leaves last_rotation as it was for a config it skips
\* because nobody holds the initial role or because a role is missing, and
\* for the configs it was not asked to rotate
C31_ForceStoresClock ==
    /\ [][ForceRotate =>
             IF last_pass'.errors = {} THEN config'.last_rotation = <<now>>
             ELSE config'.last_rotation = config.last_rotation]_vars
    /\ [][ForceSkipped => config'.last_rotation = config.last_rotation]_vars
    /\ [][\A guild \in Guilds : \A id \in Optional(ConfigIds) :
             ForceTable(guild, id) =>
                 /\ DOMAIN table' = DOMAIN table
                 /\ \A row \in DOMAIN table :
                        /\ table'[row].last_rotation \in {table[row].last_rotation, <<now>>}
                        /\ row \in SkippedRows(guild) \cup (DOMAIN table \ ForcedConfigs(guild, id))
                               => table'[row] = table[row]]_vars

\* a force command has rotated a config that was rotated before, at a time
\* off the grid of its interval
C31_Witness ==
    /\ last_pass.kind = "force"
    /\ ~last_pass.skipped
    /\ last_pass.errors = {}
    /\ last_pass.before # <<>>
    /\ config.last_rotation = <<last_pass.at>>
    /\ RotationTime([config EXCEPT !.last_rotation = last_pass.before], last_pass.at)
           # last_pass.at

-----------------------------------------------------------------------------
(* Removing a config while the queue consumer runs *)

\* the row of the one config that is followed member by member
StoredConfig == 1

\* the scheduled pass finds the config only while its row exists
ScheduledPass ==
    /\ StoredConfig \in DOMAIN table
    /\ RotateSpotlight

\* one queue_role_operation(member, target_role, False) for every member of
\* target_role.members
RemovalRevokes ==
    LET holders == Ascending(member_target)
    IN  [i \in 1 .. Len(holders) |-> [member |-> holders[i], add |-> FALSE]]

\* remove_spotlight for the stored config: the row is deleted, then a revoke
\* is enqueued for every member that holds the target role at that moment
RemoveStoredConfig ==
    /\ StoredConfig \in GuildRows(1)
    /\ next_id + Len(RemovalRevokes) <= MaxOps
    /\ table' = [other \in DOMAIN table \ {StoredConfig} |-> table[other]]
    /\ store_log' = Recorded("writes", store_log,
          Operation("remove", 1, "removed", {1}, <<>>))
    /\ role_queue' = EnqueueAll(role_queue, next_id, RemovalRevokes)
    /\ next_id' = next_id + Len(RemovalRevokes)
    /\ UNCHANGED <<operation, consumer, closed, applied, attempt_log, audit,
                   enqueue_faults, guild_vars, config, now, last_pass,
                   tick_log, loop, last_rowid, platform_vars, cog_vars>>

\* one stored config of guild 1; nobody holds the target role yet
InitRemove ==
    /\ role_queue = <<>>
    /\ operation = <<>>
    /\ consumer = "running"
    /\ closed = FALSE
    /\ next_id = 0
    /\ applied = <<>>
    /\ attempt_log = <<>>
    /\ audit = {"writes"}
    /\ last_pass = NoPass
    /\ enqueue_faults = FALSE
    /\ member_initial = Members
    /\ member_target = {}
    /\ member_blacklisted = {}
    /\ member_timed_out = {}
    /\ member_bot = {}
    /\ status = AllOnline
    /\ config \in {c \in Configs : /\ c.max_users = 1
                                   /\ c.rotation_interval = 1
                                   /\ ~c.remove_when_offline
                                   /\ ~c.prioritize_active
                                   /\ ~c.ignore_timed_out
                                   /\ ~c.always_replace_current}
    /\ now = 0
    /\ table = <<NewRow(1, 11, 12, Settings(1, 1, NoFlags))>>
    /\ tick_log = <<>>
    /\ loop = "running"
    /\ last_rowid = 1
    /\ live_guilds = Guilds
    /\ live_roles = Roles
    /\ channels = [guild \in Guilds |-> [system |-> "writable", text |-> TRUE]]
    /\ store_log = NoOperation
    /\ NoCogs

NextRemove ==
    \/ ScheduledPass
    \/ RemoveStoredConfig
    \/ TakeOperation
    \/ \E outcome \in Outcomes : CompleteOperation(outcome)
    \/ Advance

SpecRemove == InitRemove /\ [][NextRemove]_vars

\* C32 as claimed: once the config is removed and the queue is empty, with
\* no operation in the hands of the consumer, no member holds the target role
C32_RemovedRoleRevoked ==
    (/\ StoredConfig \notin DOMAIN table
     /\ role_queue = <<>>
     /\ operation = <<>>) => member_target = {}

-----------------------------------------------------------------------------
(* A due config with no eligible member *)

\* members get or lose the initial role and the blacklisted role by hand
MemberUpdate(initial, blacklisted) ==
    /\ <<initial, blacklisted>> # <<member_initial, member_blacklisted>>
    /\ member_initial' = initial
    /\ member_blacklisted' = blacklisted
    /\ UNCHANGED <<tick_vars, queue_vars, enqueue_faults, member_target,
                   member_timed_out, member_bot, status, config, now, last_pass>>

\* the holders of a role by hand that the model starts from and moves between
HolderSets == {{}, {1}, {1, 2}}

\* one config; the initial role has no holder, or holders that are all
\* blacklisted, or holders of which one is not
InitIdle ==
    /\ role_queue = <<>>
    /\ operation = <<>>
    /\ consumer = "running"
    /\ closed = FALSE
    /\ next_id = 0
    /\ applied = <<>>
    /\ attempt_log = <<>>
    /\ audit = {"passes"}
    /\ last_pass = NoPass
    /\ NoTable
    /\ enqueue_faults = FALSE
    /\ member_initial \in HolderSets
    /\ member_target = {}
    /\ member_blacklisted \in HolderSets
    /\ member_timed_out = {}
    /\ member_bot = {}
    /\ status = AllOnline
    /\ config \in {c \in Configs : /\ c.max_users = 1
                                   /\ c.rotation_interval = 1
                                   /\ ~c.remove_when_offline
                                   /\ ~c.prioritize_active
                                   /\ ~c.ignore_timed_out}
    /\ now = 0

NextIdle ==
    \/ RotateSpotlight
    \/ \E initial, blacklisted \in HolderSets : MemberUpdate(initial, blacklisted)
    \/ TakeOperation
    \/ CompleteOperation("ok")
    \/ Advance

SpecIdle == InitIdle /\ [][NextIdle]_vars

\* C37: a scheduled pass over a due config that finds no member with the
\* initial role and without a blacklisted role enqueues nothing and leaves
\* last_rotation as it was, so that the config is due at every later clock
\* reading; and it stays due until a pass finds such a member
C37_IdlePassStaysDue ==
    /\ [][(RotateSpotlight /\ member_initial \ member_blacklisted = {}) =>
             /\ role_queue' = role_queue
             /\ next_id' = next_id
             /\ config' = config
             /\ \A t \in TimePoints : t >= now => IsDue(config', t)]_vars
    /\ [](last_pass.kind = "tick" /\ last_pass.skipped =>
             /\ config.last_rotation = last_pass.before
             /\ IsDue(config, now))

\* a pass found only blacklisted holders of the initial role at a time when
\* the config, rotated before, was due; the clock has moved on since
C37_Witness ==
    /\ last_pass.kind = "tick"
    /\ last_pass.skipped
    /\ last_pass.before # <<>>
    /\ member_initial # {}
    /\ member_initial \ member_blacklisted = {}
    /\ now > last_pass.at

-----------------------------------------------------------------------------
(* Ban sync: the in-progress marker *)

\* C35 as claimed: a marker for a (linked guild, user) pair is there only
\* while the handler that set it is between its ban call and the end of the
\* sleep that follows; a ban call that failed leaves no marker behind
C35_MarkerCleared ==
    \A key \in processing_ban : \E handler \in syncing : handler.at = key[1]

-----------------------------------------------------------------------------
(* Ban sync: the event of a ban the bot applied *)

\* C34 as claimed: the handler of the event of a ban that the bot applied
\* bans nobody and alerts no guild
C34_OwnBanNotPropagated ==
    /\ \A alert \in alert_log : alert.by # <<"bot">>
    /\ ban_log # <<>> => ban_log.actor # <<"bot">>

-----------------------------------------------------------------------------
(* Ban sync: the limit of links of a guild *)

\* the guilds of the link commands, and the guilds guild 1 is linked with at
\* the start: one less than the limit
LinkGuilds == {1, 2, 3}
LinkedBefore == {10 + n : n \in 1 .. (MaxLinks - 1)}

\* guild 1 is one link short of the limit; guild 2 has an alert channel
InitLimit ==
    /\ NoSpotlight
    /\ NoUpdates
    /\ NoSticky
    /\ live_guilds = LinkGuilds
    /\ links = {<<1, other>> : other \in LinkedBefore}
    /\ alert_channels = {2}
    /\ NoBans
    /\ NoRequests
    /\ NoCard

NextLimit ==
    \/ \E guild \in LinkGuilds, target_guild \in LinkGuilds :
       \E has_admin_in_target \in BOOLEAN, sent \in BOOLEAN :
           AddLink(guild, target_guild, has_admin_in_target, sent)
    \/ \E r \in 1 .. MaxRequests, button \in Buttons, permitted \in BOOLEAN :
           Click(r, button, permitted)
    \/ \E r \in DOMAIN requests : \E callback \in requests[r].callbacks, edited \in BOOLEAN :
           Decided(r, callback, edited)
    \/ \E r \in DOMAIN requests : \E callback \in requests[r].callbacks, sent \in BOOLEAN :
           Stop(r, callback, sent)
    \/ \E r \in 1 .. MaxRequests : CompleteLink(r)
    \/ \E r \in 1 .. MaxRequests : TimeoutLink(r)
    \/ \E r \in 1 .. MaxRequests : ViewTimeout(r)
    \/ \E guild \in LinkGuilds, target_guild \in LinkGuilds : RemoveLink(guild, target_guild)

SpecLimit == InitLimit /\ [][NextLimit]_vars

\* C33 as claimed: no guild is part of more than 8 links
C33_LinkLimit == \A guild \in LinkGuilds : LinkCount(guild) <= MaxLinks

-----------------------------------------------------------------------------
(* Card: the queue of nickname updates *)

\* UpdateQueue.batch_size
BatchSize == 5

\* the variables the update queue leaves alone
update_frame == <<spotlight_vars, ban_vars, link_vars, card_vars, sticky_vars>>

\* an add_member that appends whether or not the member is in the queue
EnqueuedAgain(queue, member) == Append(queue, member)

\* add_member: "Skip if already in queue"
Enqueued(queue, member) ==
    IF member \in Range(queue) THEN queue ELSE Append(queue, member)

\* a process_queue task as create_task leaves it
NewProcessor == [at |-> "created", member |-> 0, processed |-> 0]

\* the tasks without task t
WithoutTask(tasks, t) ==
    [i \in 1 .. (Len(tasks) - 1) |-> IF i < t THEN tasks[i] ELSE tasks[i + 1]]

\* update_member_nickname. allowed: the bot may manage nicknames and the
\* member's top role is below the bot's, or the member owns the guild.
UpdateMemberNickname(member, allowed) ==
    /\ IF ~allowed
       THEN UNCHANGED update_vars
       ELSE /\ update_queue' = Enqueued(update_queue, member)
            /\ IF ~processing
               THEN /\ processing' = TRUE
                    /\ processors' = Append(processors, NewProcessor)
               ELSE UNCHANGED <<processing, processors>>
    /\ UNCHANGED update_frame

\* process_queue at a test of its loops with `processed` updates done in the
\* batch: the next member is taken, or the task sleeps before the next
\* batch, or it ends and clears the flag
Continue(t, processed) ==
    IF update_queue # <<>> /\ processed < BatchSize
    THEN /\ processors' = [processors EXCEPT
                              ![t] = [at |-> "updating", member |-> Head(update_queue),
                                      processed |-> processed]]
         /\ update_queue' = Tail(update_queue)
         /\ UNCHANGED processing
    ELSE IF update_queue # <<>>
    THEN /\ processors' = [processors EXCEPT
                              ![t] = [at |-> "asleep", member |-> 0, processed |-> processed]]
         /\ UNCHANGED <<update_queue, processing>>
    ELSE /\ processors' = WithoutTask(processors, t)
         /\ processing' = FALSE
         /\ UNCHANGED update_queue

\* process_queue from its start, or from the end of its sleep, to its next await
StartBatch(t) ==
    /\ t \in DOMAIN processors
    /\ processors[t].at \in {"created", "asleep"}
    /\ Continue(t, 0)
    /\ UNCHANGED update_frame

\* process_queue when _process_member_update returns (returned) or raises
UpdateDone(t, returned) ==
    /\ t \in DOMAIN processors
    /\ processors[t].at = "updating"
    /\ Continue(t, processors[t].processed + (IF returned THEN 1 ELSE 0))
    /\ UNCHANGED update_frame

\* a freshly constructed Card cog
InitUpdates ==
    /\ NoSpotlight
    /\ live_guilds = Guilds
    /\ links = {}
    /\ alert_channels = {}
    /\ NoBans
    /\ NoRequests
    /\ NoCard
    /\ NoUpdates
    /\ NoSticky

NextUpdates ==
    \/ \E member \in Members, allowed \in BOOLEAN : UpdateMemberNickname(member, allowed)
    \/ \E t \in DOMAIN processors : StartBatch(t)
    \/ \E t \in DOMAIN processors, returned \in BOOLEAN : UpdateDone(t, returned)

SpecUpdates == InitUpdates /\ [][NextUpdates]_vars

\* the event loop runs every task that is ready, and every update of a
\* member returns or raises
FairSpecUpdates ==
    /\ SpecUpdates
    /\ WF_vars(\E t \in DOMAIN processors : StartBatch(t))
    /\ WF_vars(\E t \in DOMAIN processors, returned \in BOOLEAN : UpdateDone(t, returned))

\* the processor has taken the member from the queue and updates it
Updating(member) ==
    \E t \in DOMAIN processors :
        processors[t].at = "updating" /\ processors[t].member = member

\* C39: the queue holds no member twice, there is at most one processor
\* task, and while the queue is not empty the flag is set and a processor
\* task is running; so every member in the queue is taken by the processor
C39_UpdateQueueServed ==
    /\ [](/\ \A i, j \in DOMAIN update_queue : update_queue[i] = update_queue[j] => i = j
          /\ Len(processors) <= 1
          /\ update_queue # <<>> => processing /\ Len(processors) = 1)
    /\ \A member \in Members : (member \in Range(update_queue)) ~> Updating(member)

\* the processor sleeps after a full batch while two members wait, one of
\* them queued again after its update
C39_Witness ==
    /\ Len(update_queue) >= 2
    /\ \E t \in DOMAIN processors :
           processors[t].at = "asleep" /\ processors[t].processed = BatchSize

-----------------------------------------------------------------------------
(* Sticky messages: one channel that has a sticky *)

\* the user messages of a behaviour
MaxMessages == 4

\* the variables the sticky messages leave alone
sticky_frame == <<spotlight_vars, ban_vars, link_vars, card_vars, update_vars>>

\* task.cancel(): CancelledError is raised in the task at the await it is
\* at; process_sticky_update catches it in its wait and returns, and past
\* the wait no handler catches it
Cancelled(tasks, t) ==
    IF tasks[t] \in {"waiting", "deleting", "sending"}
    THEN [tasks EXCEPT ![t] = "cancelled"]
    ELSE tasks

\* on_message for a message of a user, up to its pause or, with no pending
\* entry, to its end
OnMessage ==
    /\ Len(sticky_tasks) + sticky_handlers < MaxMessages
    /\ sticky_posts' = 0
    /\ IF sticky_pending # <<>>
       THEN /\ sticky_tasks' = Cancelled(sticky_tasks, sticky_pending[1])
            /\ sticky_handlers' = sticky_handlers + 1
            /\ UNCHANGED sticky_pending
       ELSE /\ sticky_tasks' = Append(sticky_tasks, "waiting")
            /\ sticky_pending' = <<Len(sticky_tasks) + 1>>
            /\ UNCHANGED sticky_handlers
    /\ UNCHANGED sticky_frame

\* on_message after asyncio.sleep(0.1): the new task and the new entry
AfterPause ==
    /\ sticky_handlers > 0
    /\ sticky_handlers' = sticky_handlers - 1
    /\ sticky_tasks' = Append(sticky_tasks, "waiting")
    /\ sticky_pending' = <<Len(sticky_tasks) + 1>>
    /\ UNCHANGED <<sticky_frame, sticky_posts>>

\* process_sticky_update at the end of its wait: it returns when the channel
\* has no pending entry, and goes on to delete the previous sticky otherwise
WaitOver(t) ==
    /\ t \in DOMAIN sticky_tasks
    /\ sticky_tasks[t] = "waiting"
    /\ sticky_tasks' = [sticky_tasks EXCEPT
                           ![t] = IF sticky_pending = <<>> THEN "ended" ELSE "deleting"]
    /\ UNCHANGED <<sticky_frame, sticky_pending, sticky_handlers, sticky_posts>>

\* process_sticky_update has deleted the previous sticky, or found none
PreviousDeleted(t) ==
    /\ t \in DOMAIN sticky_tasks
    /\ sticky_tasks[t] = "deleting"
    /\ sticky_tasks' = [sticky_tasks EXCEPT ![t] = "sending"]
    /\ UNCHANGED <<sticky_frame, sticky_pending, sticky_handlers, sticky_posts>>

\* channel.send of process_sticky_update returns or raises; after a send
\* that returned the task removes the entry if it is the entry's task
StickySent(t, returned) ==
    /\ t \in DOMAIN sticky_tasks
    /\ sticky_tasks[t] = "sending"
    /\ sticky_tasks' = [sticky_tasks EXCEPT ![t] = "ended"]
    /\ sticky_posts' = IF returned THEN sticky_posts + 1 ELSE sticky_posts
    /\ sticky_pending' = IF returned /\ sticky_pending = <<t>> THEN <<>> ELSE sticky_pending
    /\ UNCHANGED <<sticky_frame, sticky_handlers>>

\* a freshly constructed StickyMsg cog
InitSticky ==
    /\ NoSpotlight
    /\ live_guilds = Guilds
    /\ links = {}
    /\ alert_channels = {}
    /\ NoBans
    /\ NoRequests
    /\ NoCard
    /\ NoUpdates
    /\ NoSticky

NextSticky ==
    \/ OnMessage
    \/ AfterPause
    \/ \E t \in DOMAIN sticky_tasks : WaitOver(t)
    \/ \E t \in DOMAIN sticky_tasks : PreviousDeleted(t)
    \/ \E t \in DOMAIN sticky_tasks, returned \in BOOLEAN : StickySent(t, returned)

SpecSticky == InitSticky /\ [][NextSticky]_vars

\* C38 as claimed: the sticky is sent at most once after the latest user
\* message, and only the task of the pending entry of the channel gets to
\* delete and send
C38_OneRepost ==
    /\ sticky_posts <= 1
    /\ \A t \in DOMAIN sticky_tasks :
           sticky_tasks[t] \in {"deleting", "sending"} => sticky_pending = <<t>>

-----------------------------------------------------------------------------
(* Ban sync: the pending requests *)

\* C36 as claimed: every pending-request entry belongs to a request that
\* was delivered and whose view still waits for a decision or its timeout
C36_PendingWhileOutstanding ==
    \A key \in pending_requests :
        \E r \in DOMAIN requests :
            /\ LinkKey(requests[r].guild, requests[r].target_guild) = key
            /\ requests[r].view = "listening"

=============================================================================
